---------------------------- MODULE Spec2Model ----------------------------
(***************************************************************************)
(* Article acquisition pipeline of backend/news_fetcher3.py:               *)
(*   create_name_pattern, load_from_cache / save_to_cache,                 *)
(*   search_rss_feeds and get_news_about, extract_article_content, the     *)
(*   image resolvers and the URL normalizers, with the JSON-LD loop and    *)
(*   the normalizer of backend/enhanced_image_extractor.py.                *)
(*                                                                         *)
(* Strings that the code inspects character by character (names, feed      *)
(* texts) are sequences of one-character strings.  Optional values are     *)
(* records [some, v].  Time is the local clock of the process, in hours.   *)
(*                                                                         *)
(* Specifications:                                                         *)
(*   Spec       requests without a date range, one after the other         *)
(*   SpecDates  one get_news_about request, with or without a date range   *)
(*   SpecName   create_name_pattern and the search with its pattern        *)
(*   SpecCache  concurrent save_to_cache and load_from_cache on one key    *)
(*   SpecExtract  one call of extract_article_content                      *)
(*   SpecImage  one call of an image resolver                              *)
(*   SpecUrl    a URL normalizer applied once, and again to its result     *)
(*   SpecProbe  one accessibility probe of an image URL                    *)
(*   SpecCascade  the strategies of a page-level image resolver            *)
(*   SpecKeys   the cache keys of two queries                              *)
(*   SpecLimits  search_rss_feeds on feeds longer than the entry limit     *)
(*   SpecSentiment  one call of analyze_sentiment                          *)
(*   SpecSummary  calls of generate_overall_summary in one process         *)
(*   SpecSteady  calls of search_rss_feeds over feeds that do not change   *)
(***************************************************************************)
EXTENDS Integers, Sequences, FiniteSets, TLC

(***************************************************************************)
(* Bounds of the model and constants of the program.                       *)
(***************************************************************************)
\* largest max_articles a request asks for
MaxArticles == 2
\* most entries one fetched feed document carries
MaxEntries == 2
\* last instant of the clock, in hours
MaxTime == 25
\* requests served in one behaviour
MaxRequests == 2
\* CACHE_TTL = timedelta(hours=24)
CACHE_TTL == 24
\* feed.entries[:20]
ENTRY_LIMIT == 20
\* len(entry_data['content']) < 200
MIN_CONTENT == 200

(***************************************************************************)
(* Characters and texts.                                                   *)
(***************************************************************************)
UpperLetters == <<"A","B","C","D","E","F","G","H","I","J","K","L","M",
                  "N","O","P","Q","R","S","T","U","V","W","X","Y","Z">>

LowerLetters == <<"a","b","c","d","e","f","g","h","i","j","k","l","m",
                  "n","o","p","q","r","s","t","u","v","w","x","y","z">>

Digits == {"0","1","2","3","4","5","6","7","8","9"}

\* the characters str.strip() and str.split() take for whitespace
Whitespace == {" ", "\t", "\n", "\r", "\f"}

Quotes == {"\"", "'"}

UpperToLower ==
    [c \in {UpperLetters[i] : i \in 1..26} |->
        LowerLetters[CHOOSE i \in 1..26 : UpperLetters[i] = c]]

\* str.lower() on one character
LowerChar(c) == IF c \in DOMAIN UpperToLower THEN UpperToLower[c] ELSE c

\* str.lower()
Lower(s) == [i \in 1..Len(s) |-> LowerChar(s[i])]

WordChars ==
    {UpperLetters[i] : i \in 1..26} \cup {LowerLetters[i] : i \in 1..26}
        \cup Digits \cup {"_"}

\* the regex class \w
IsWordChar(c) == c \in WordChars

\* str.strip(chars): drop leading and trailing characters of the set
RECURSIVE LStrip(_, _)
LStrip(s, chars) ==
    IF s # <<>> /\ Head(s) \in chars THEN LStrip(Tail(s), chars) ELSE s

RECURSIVE RStrip(_, _)
RStrip(s, chars) ==
    IF s # <<>> /\ s[Len(s)] \in chars
    THEN RStrip(SubSeq(s, 1, Len(s) - 1), chars)
    ELSE s

Strip(s, chars) == RStrip(LStrip(s, chars), chars)

\* str.split(): maximal runs of non-whitespace characters, in order
RECURSIVE SplitFrom(_, _, _)
SplitFrom(s, word, acc) ==
    IF s = <<>>
    THEN IF word = <<>> THEN acc ELSE Append(acc, word)
    ELSE IF Head(s) \in Whitespace
         THEN SplitFrom(Tail(s), <<>>, IF word = <<>> THEN acc ELSE Append(acc, word))
         ELSE SplitFrom(Tail(s), Append(word, Head(s)), acc)

Split(s) == SplitFrom(s, <<>>, <<>>)

\* ' '.join(parts)
RECURSIVE Join(_)
Join(parts) ==
    IF parts = <<>> THEN <<>>
    ELSE IF Len(parts) = 1 THEN parts[1]
    ELSE parts[1] \o <<" ">> \o Join(Tail(parts))

\* reversed(parts)
Reversed(parts) == [i \in 1..Len(parts) |-> parts[Len(parts) + 1 - i]]

(***************************************************************************)
(* create_name_pattern: the compiled pattern is the list of its literal    *)
(* alternatives; every alternative is wrapped in (?<!\w) ... (?!\w) and    *)
(* the whole pattern carries (?i).                                         *)
(***************************************************************************)
NoPattern == [some |-> FALSE, alts |-> <<>>]

NameParts(name) == Split(Lower(Strip(Strip(name, Quotes), Whitespace)))

NameAlternatives(parts) ==
    IF Len(parts) > 1
    THEN << Join(parts),
            Join(Reversed(parts)),
            parts[1] \o <<" ">> \o <<parts[Len(parts)][1]>> \o <<".">>,
            <<parts[1][1]>> \o <<".", " ">> \o parts[Len(parts)] >>
    ELSE << Join(parts) >>

create_name_pattern(name) ==
    IF Strip(Strip(name, Quotes), Whitespace) = <<>> \/ NameParts(name) = <<>>
    THEN NoPattern
    ELSE [some |-> TRUE, alts |-> NameAlternatives(NameParts(name))]

\* the alternative without its trailing (?!\w)
MatchesAt_NoLookahead(lit, text, i) ==
    /\ i + Len(lit) - 1 <= Len(text)
    /\ (i = 1 \/ ~IsWordChar(text[i - 1]))
    /\ \A k \in 1..Len(lit) : LowerChar(text[i + k - 1]) = LowerChar(lit[k])

\* one alternative, (?<!\w) lit (?!\w) under (?i), matched at position i
MatchesAt(lit, text, i) ==
    /\ i + Len(lit) - 1 <= Len(text)
    /\ (i = 1 \/ ~IsWordChar(text[i - 1]))
    /\ \A k \in 1..Len(lit) : LowerChar(text[i + k - 1]) = LowerChar(lit[k])
    /\ (i + Len(lit) > Len(text) \/ ~IsWordChar(text[i + Len(lit)]))

\* name_pattern.search(text) is not None
PatternSearch(pattern, text) ==
    /\ pattern.some
    /\ \E a \in 1..Len(pattern.alts) :
          \E i \in 1..Len(text) : MatchesAt(pattern.alts[a], text, i)


(***************************************************************************)
(* Values of the pipeline.                                                 *)
(***************************************************************************)
\* Python's None where a string is expected
None == "None"

NoPayload == [some |-> FALSE, v |-> <<>>]

Some(v) == [some |-> TRUE, v |-> v]

\* the list without the slice
Take_All(s, n) == s

\* list[:n] for n >= 0
Take(s, n) == SubSeq(s, 1, IF n < Len(s) THEN n ELSE Len(s))

Urls(list) == {list[i].url : i \in 1..Len(list)}

NoDuplicateUrls(list) ==
    \A i, j \in 1..Len(list) : list[i].url = list[j].url => i = j

\* urllib.parse.unquote on the links of the model: "u1%" is a percent-encoded
\* spelling of "u1"
clean_url(url) == IF url = "u1%" THEN "u1" ELSE url

(***************************************************************************)
(* json.dump / json.load of a list of article records.  The file is a      *)
(* sequence of tokens: "[", one object per record, "]".  A string field is *)
(* written as <<"s", text>>, None as <<"null">>.                           *)
(***************************************************************************)
JsonValue(x) == IF x = None THEN <<"null">> ELSE <<"s", x>>

PyValue(j) == IF j[1] = "null" THEN None ELSE j[2]

JsonObject(r) ==
    <<"{", JsonValue(r.url), JsonValue(r.publish_date),
           JsonValue(r.image_url), JsonValue(r.content), JsonValue(r.source)>>

PyRecord(o) ==
    [url |-> PyValue(o[2]), publish_date |-> PyValue(o[3]),
     image_url |-> PyValue(o[4]), content |-> PyValue(o[5]),
     source |-> PyValue(o[6])]

json_dump(data) ==
    <<  <<"[">>  >> \o [i \in 1..Len(data) |-> JsonObject(data[i])] \o <<  <<"]">>  >>

WellFormed(tokens) ==
    /\ Len(tokens) >= 2
    /\ tokens[1][1] = "["
    /\ tokens[Len(tokens)][1] = "]"
    /\ \A i \in 2..(Len(tokens) - 1) : tokens[i][1] = "{"

\* json.load: the payload, or nothing when the text is not one JSON document
json_load(tokens) ==
    IF WellFormed(tokens)
    THEN Some([i \in 1..(Len(tokens) - 2) |-> PyRecord(tokens[i + 1])])
    ELSE NoPayload

(***************************************************************************)
(* The result cache: one file per key under CACHE_DIR.                     *)
(***************************************************************************)
NoFile == [exists |-> FALSE, content |-> <<>>, mtime |-> 0]

\* hashlib.md5(f"rss_search_{query}") -- the digest is taken as injective
RssKey(query) == [scope |-> "rss_search", text |-> query]

\* get_cache_key(f"{query}_{start_date or ''}_{end_date or ''}", "news_about")
get_cache_key(query, feed_url) == [scope |-> feed_url, text |-> Lower(query)]

NewsKey(query, start_date, end_date) ==
    get_cache_key(query \o <<"_", start_date, "_", end_date>>, "news_about")

\* load_from_cache expiring an entry at CACHE_TTL already
load_from_cache_Strict(file, clock, readable) ==
    IF ~file.exists THEN NoPayload
    ELSE IF clock - file.mtime >= CACHE_TTL THEN NoPayload
    ELSE IF ~readable THEN NoPayload
    ELSE json_load(file.content)

\* load_from_cache without the comparison against CACHE_TTL
load_from_cache_NoExpiry(file, clock, readable) ==
    IF ~file.exists THEN NoPayload
    ELSE IF ~readable THEN NoPayload
    ELSE json_load(file.content)

\* load_from_cache answering with the text of the file whatever the read did
load_from_cache_Unguarded(file, clock, readable) ==
    IF ~file.exists THEN NoPayload
    ELSE IF clock - file.mtime > CACHE_TTL THEN NoPayload
    ELSE json_load(file.content)

\* load_from_cache; readable = the open and read of the file succeed
load_from_cache(file, clock, readable) ==
    IF ~file.exists THEN NoPayload
    ELSE IF clock - file.mtime > CACHE_TTL THEN NoPayload
    ELSE IF ~readable THEN NoPayload
    ELSE json_load(file.content)

\* save_to_cache; outcome "ok", "open_fails" (nothing written) or "truncated"
\* (open(cache_file, 'w') emptied the file and the write then failed)
save_to_cache(file, data, clock, outcome) ==
    CASE outcome = "ok" ->
            [exists |-> TRUE, content |-> json_dump(data), mtime |-> clock]
      [] outcome = "truncated" ->
            [exists |-> TRUE, content |-> <<>>, mtime |-> clock]
      [] OTHER -> file

WriteOutcomes == {"ok", "open_fails", "truncated"}

\* a truthy payload: `if cached_results`
Truthy(p) == p.some /\ p.v # <<>>

(***************************************************************************)
(* The inputs of the requests and what the outside world answers.          *)
(***************************************************************************)
JaneDoe == <<"J","a","n","e"," ","D","o","e">>

\* queries of search_rss_feeds, and of get_news_about
Queries == {JaneDoe, <<>>}

NewsQueries == {JaneDoe}

\* (start_date, end_date) of a request; "" stands for None
NoRange == <<"", "">>

DateRanges == {NoRange, <<"2024-01-02", "2024-01-02">>,
               <<"2024-01-02", "">>, <<"", "2024-01-02">>}

\* what get_active_rss_feeds can return; <<>> also when the database fails
FeedLists == {<<>>, <<"f1">>, <<"f1", "f2">>}

TickSteps == {CACHE_TTL, CACHE_TTL + 1}

TitleMatch == <<"J","a","n","e"," ","D","o","e"," ","w","i","n","s">>

TitleOther == <<"J","a","n","e"," ","D","o","e","r","i","n","g">>

\* a feed entry: description is None (no such key), "" or a text of the given
\* length class; published_parsed is given already formatted as '%Y-%m-%d';
\* image is None, a plain string or "dict" (a value that is not a string)
Entry(link, title, description, published_parsed, updated, image) ==
    [link |-> link, title |-> title, description |-> description,
     published_parsed |-> published_parsed, updated |-> updated, image |-> image]

E1 == Entry("u1", TitleMatch, "long", "2024-01-01", None, None)

E2 == Entry("u1%", TitleMatch, "long", None, "Mon, 01 Jan 2024", None)

E3 == Entry("u2", TitleMatch, "short", None, None, "img1")

E4 == Entry("u2", TitleMatch, None, None, None, "dict")

E5 == Entry("u3", TitleOther, "long", "2024-01-01", None, None)

E6 == Entry("", TitleMatch, "long", "2024-01-01", None, None)

\* an entry whose description element is there and empty
E7 == Entry("u5", TitleMatch, "", None, None, None)

\* the entries each feed of the model can serve: "f2" carries the article of
\* E1 under a percent-encoded link
FeedEntries(feed_url) == IF feed_url = "f1" THEN {E1, E3, E5, E6} ELSE {E2, E4, E7}

\* feedparser.parse: a document of some number of entries, a document
\* flagged with bozo_exception, or an exception; the entries of a document
\* are drawn from FeedEntries as the entry loop reaches them
PollOutcomes ==
    [kind : {"bozo", "raise"}, size : {0}] \cup [kind : {"ok"}, size : 0..MaxEntries]

\* a slice that keeps every entry
Min_Unlimited(a, b) == a

Min(a, b) == IF a < b THEN a ELSE b

\* documents at and beyond the limit of entries visited per feed
PollOutcomesLong ==
    [kind : {"bozo", "raise"}, size : {0}]
        \cup [kind : {"ok"}, size : {0, 1, ENTRY_LIMIT, ENTRY_LIMIT + 1}]

\* article_data as search_rss_feeds reads it: None, or a dictionary with
\* content, image_url and publish_date
NoPage == [some |-> FALSE, content |-> "", image_url |-> None, publish_date |-> None]

\* the values of article_data the merge of search_rss_feeds is written for
Pages == {NoPage,
          [some |-> TRUE, content |-> "page", image_url |-> "pimg",
           publish_date |-> "2024-01-02T09:00:00Z"]}

\* status_forcelist of the retry strategy
TransientStatuses == {"408", "429", "500", "502", "503", "504"}

\* what a GET of an article url can meet: an HTTP status, or no answer
Answers == {"200", "404", "503", "timeout"}

\* the server of an article: answers[i] is what the i-th GET of the url
\* meets, content_type the header of its 200 answer, layout what its
\* document has: a content container, a body only, or no body
Site(answers, content_type, layout) ==
    [answers |-> answers, content_type |-> content_type, layout |-> layout]

ContentTypes == {"text/html", "application/pdf"}

Layouts == {"container", "body", "empty"}

SiteUp == Site(<<"200", "200", "200", "200">>, "text/html", "container")

SiteDown == Site(<<"timeout", "timeout", "timeout", "timeout">>, "text/html", "container")

SiteBusy == Site(<<"503", "200", "200", "200">>, "text/html", "container")

\* the servers behind the links of the feeds
Sites == {SiteUp, SiteDown, SiteBusy}

\* the keyword parameters of requests.adapters.HTTPAdapter.__init__
HTTPAdapterParameters == {"pool_connections", "pool_maxsize", "max_retries", "pool_block"}

\* the keywords extract_article_content passes to it
AdapterKeywords == {"max_retries", "status_forcelist", "allowed_methods", "backoff_factor"}

\* a call with a keyword the callee does not have raises TypeError
CallRaises(keywords, parameters) == ~(keywords \subseteq parameters)

\* no dictionary returned
NoExtract(attempts, ended) ==
    [attempts |-> attempts, ended |-> ended, url |-> None, page |-> NoPage]

\* extract_article_content(url) on the server site: the GETs sent, how the
\* body of the function ended, and what it returned.  Every exception of the
\* body is caught by its `except Exception`, which returns None.  The module
\* has no name `self`, so self._clean_article(article) raises NameError.
ExtractRun(url, site) ==
    IF CallRaises(AdapterKeywords, HTTPAdapterParameters)
    THEN NoExtract(0, "TypeError")
    ELSE IF site.answers[1] # "200"
    THEN NoExtract(1, "HTTPError")
    ELSE IF site.content_type # "text/html"
    THEN NoExtract(1, "content_type")
    ELSE IF site.layout = "empty"
    THEN NoExtract(1, "no_content_area")
    ELSE NoExtract(1, "NameError")

\* article_data = extract_article_content(url)
extract_article_content(url, site) == ExtractRun(url, site).page

\* image URLs of the model: one that is served, one that is gone, one with
\* a query string, a data: URI, and a URL that is no image
ImgOk == "http://cdn/a.jpg"

ImgGone == "http://cdn/gone.jpg"

ImgQuery == "http://cdn/a.jpg?sig=1"

ImgData == "data:image/png;base64"

NotImage == "http://site/about"

\* images the accessibility probe confirms: a 200 answer with an image
\* content type
AccessibleImages == {"img1", "pimg", ImgOk, ImgQuery}

\* what fetch_news returns (title, content, url, publish_date)
ApiArticle(url, publish_date) ==
    [title |-> "t", content |-> "api", url |-> url, publish_date |-> publish_date]

A1 == ApiArticle("u1", "2024-01-03T10:00:00Z")

A2 == ApiArticle("u4", "No date")

A3 == ApiArticle("u4", None)

ApiOutcomes ==
    [kind : {"raise"}, list : {<<>>}] \cup
    [kind : {"ok"}, list : {<<>>, <<A1>>, <<A2>>, <<A3, A1>>}]

A4 == ApiArticle("u6", "2024-01-02T09:00:00Z")

\* answers of the news API with articles of three days
ApiOutcomesDated ==
    ApiOutcomes \cup [kind : {"ok"}, list : {<<A4>>, <<A4, A1>>, <<A3, A4>>}]

(***************************************************************************)
(* Dates.                                                                  *)
(***************************************************************************)
\* `if s`: a publish_date that is neither None nor empty
HasText(s) == s # None /\ s # ""

\* datetime.strptime(s.split('T')[0], '%Y-%m-%d'): the day, or ValueError
ParseDay(s) ==
    CASE s = "2024-01-01" -> [ok |-> TRUE, day |-> 1]
      [] s \in {"2024-01-02", "2024-01-02T09:00:00Z"} -> [ok |-> TRUE, day |-> 2]
      [] s = "2024-01-03T10:00:00Z" -> [ok |-> TRUE, day |-> 3]
      [] OTHER -> [ok |-> FALSE, day |-> 0]

\* datetime.min
DateMin == 0

(***************************************************************************)
(* search_rss_feeds: one matching entry.                                   *)
(***************************************************************************)
\* len(clean_text(description))
DescLen(description) ==
    CASE description = "long" -> 250
      [] description = "short" -> 50
      [] OTHER -> 0

\* clean_text(entry.get('description', ''))
DescText(description) == IF description = None THEN "" ELSE description

\* extract_image_from_rss_robust raises on an image field that is no string
\* (getattr(entry, field, '').strip())
ImageStepRaises(entry) == entry.image = "dict"

\* extract_image_from_rss_robust: the image field, when the probe confirms it
extract_image_from_rss_robust(entry) ==
    IF entry.image # None /\ entry.image \in AccessibleImages
    THEN entry.image ELSE None

\* the publish date the feed gives: published_parsed, else the raw text of
\* the first of updated / published / pubDate / dc:date
FeedPublishDate(entry) ==
    IF entry.published_parsed # None THEN entry.published_parsed
    ELSE IF entry.updated # None THEN entry.updated
    ELSE ""

\* clean_text(feed.get('feed', {}).get('title', urlparse(feed_url).netloc)):
\* the feeds of the model carry no title and are named by their hosts
FeedSource(feed_url) == feed_url

\* `if len(entry_data['content']) < 200`: extract_article_content is called
NeedsFullFetch(entry) == DescLen(entry.description) < MIN_CONTENT

\* the image of the page taken whatever the feed gave
MergeImage_PageFirst(image0, page) ==
    IF page.image_url # None THEN page.image_url ELSE image0

\* `if article_data.get('image_url') and not entry_data.get('image_url')`
MergeImage(image0, page) ==
    IF page.image_url # None /\ image0 = None THEN page.image_url ELSE image0

\* `if article_data.get('publish_date') and not entry_data.get('publish_date')`
MergeDate(date0, page) ==
    IF HasText(page.publish_date) /\ ~HasText(date0) THEN page.publish_date ELSE date0

\* the record built for a matching entry; page is what extract_article_content
\* returned when the feed content is shorter than MIN_CONTENT
BuildRecord(entry, url, page, feed_url) ==
    LET content0 == DescText(entry.description)
        image0   == extract_image_from_rss_robust(entry)
        date0    == FeedPublishDate(entry)
        fetch    == NeedsFullFetch(entry) /\ page.some
        content1 == IF fetch /\ page.content # "" THEN page.content ELSE content0
        image1   == IF fetch THEN MergeImage(image0, page) ELSE image0
        date1    == IF fetch THEN MergeDate(date0, page) ELSE date0
        content2 == IF content1 = ""
                    THEN IF entry.description = None
                         THEN "No content available" ELSE DescText(entry.description)
                    ELSE content1
    IN  [url |-> url, publish_date |-> date1, image_url |-> image1,
         content |-> content2, source |-> FeedSource(feed_url)]

\* the skip without the test against processed_urls
EntrySkipped_NoDedup(entry, seen) == clean_url(entry.link) = ""

\* the entry is skipped before matching
EntrySkipped(entry, seen) ==
    clean_url(entry.link) = "" \/ clean_url(entry.link) \in seen

\* what one pass of the entry loop does with the entry, as the log tells it
EntryOutcome(seen, pattern, entry) ==
    IF clean_url(entry.link) = "" THEN "no_url"
    ELSE IF EntrySkipped(entry, seen) THEN "duplicate"
    ELSE IF ~PatternSearch(pattern, Lower(entry.title)) THEN "no_match"
    ELSE IF ImageStepRaises(entry) THEN "error"
    ELSE "added"

\* articles after one entry of the loop body
AfterEntry(list, seen, pattern, entry, page, feed_url) ==
    IF EntryOutcome(seen, pattern, entry) = "added"
    THEN Append(list, BuildRecord(entry, clean_url(entry.link), page, feed_url))
    ELSE list

(***************************************************************************)
(* get_news_about: merge, de-duplication, date filter and sort.            *)
(***************************************************************************)
\* urllib.parse.urlparse(url).netloc: the articles of the news API in the
\* model are all served by one host
Netloc(url) == "news.example"

\* the record made of an article of the news API
FromApi(a) ==
    [url |-> a.url, publish_date |-> a.publish_date, image_url |-> None,
     content |-> a.content, source |-> Netloc(a.url)]

\* article_date: the parsed day, or nothing (ValueError is caught here)
ArticleDate(r) ==
    IF HasText(r.publish_date) THEN ParseDay(r.publish_date)
    ELSE [ok |-> FALSE, day |-> 0]

\* the filter without its test against end_date
IncludeArticle_NoEnd(r, start_date, end_date) ==
    ~(start_date # "" /\ ArticleDate(r).ok
        /\ ArticleDate(r).day < ParseDay(start_date).day)

\* include_article after the two tests against start_date and end_date
IncludeArticle(r, start_date, end_date) ==
    /\ ~(start_date # "" /\ ArticleDate(r).ok
            /\ ArticleDate(r).day < ParseDay(start_date).day)
    /\ ~(end_date # "" /\ ArticleDate(r).ok
            /\ ArticleDate(r).day > ParseDay(end_date).day)

\* the test that lets every article through
AlreadySeen_Never(url, seen) == FALSE

\* article['url'] not in seen_urls, negated
AlreadySeen(url, seen) == url \in seen

\* the loop over all_articles with seen_urls
RECURSIVE UniqueFrom(_, _, _, _, _)
UniqueFrom(all, seen, acc, start_date, end_date) ==
    IF all = <<>> THEN acc
    ELSE IF AlreadySeen(Head(all).url, seen)
         THEN UniqueFrom(Tail(all), seen, acc, start_date, end_date)
         ELSE UniqueFrom(Tail(all), seen \cup {Head(all).url},
                         IF IncludeArticle(Head(all), start_date, end_date)
                         THEN Append(acc, Head(all)) ELSE acc,
                         start_date, end_date)

UniqueArticles(all, start_date, end_date) ==
    UniqueFrom(all, {}, <<>>, start_date, end_date)

\* the sort key raises ValueError on a date text strptime cannot read
KeyRaises(r) == HasText(r.publish_date) /\ ~ParseDay(r.publish_date).ok

SortRaises(list) == \E i \in 1..Len(list) : KeyRaises(list[i])

SortKey(r) == IF HasText(r.publish_date) THEN ParseDay(r.publish_date).day ELSE DateMin

\* list.sort(key, reverse=True): stable, equal keys keep their order
RECURSIVE InsertDesc(_, _)
InsertDesc(sorted, r) ==
    IF sorted = <<>> THEN <<r>>
    ELSE IF SortKey(Head(sorted)) >= SortKey(r)
         THEN <<Head(sorted)>> \o InsertDesc(Tail(sorted), r)
         ELSE <<r>> \o sorted

RECURSIVE SortByDate(_)
SortByDate(list) ==
    IF list = <<>> THEN <<>>
    ELSE InsertDesc(SortByDate(SubSeq(list, 1, Len(list) - 1)), list[Len(list)])

(***************************************************************************)
(* State.  The request pipeline serves requests one at a time; the name    *)
(* matcher and the concurrent cache writers have their own variables.      *)
(***************************************************************************)
VARIABLES
    now,              \* the clock, in hours
    requests,         \* requests started so far
    cache,            \* cache key -> file under CACHE_DIR
    stored,           \* cache key -> the payload of the last write, if it succeeded
    pc,               \* where the running request is
    fn,               \* the entry point called: "rss" or "news"
    query,
    max_articles,
    date_range,       \* <<start_date, end_date>>
    active_feeds,
    feed_idx,         \* position of the feed loop
    entries,          \* number of entries of the current feed not yet visited
    examined,         \* number of entries of the current feed visited so far
    articles,
    processed_urls,
    db_write,         \* the last update_one sent to rss_feeds_collection
    feed_log,         \* what the log tells of each feed polled in this run
    last_entry,       \* what the log tells of the last entry of the current feed
    last_seen,        \* that entry, and whether extract_article_content was called
    rss_path,         \* how search_rss_feeds answered: "nopattern", "hit", "fresh"
    rss_result,       \* what search_rss_feeds returned
    news_path,        \* how get_news_about answered: "hit", "miss"
    all_articles,     \* get_news_about: the merged list before de-duplication
    outcome,          \* "returned" or "raised", of the entry point
    result,           \* the list the entry point returned
    name,             \* create_name_pattern: the name given
    prefix,           \* the searched text is prefix \o core \o suffix
    core,
    suffix,
    name_pattern,     \* the compiled pattern
    matched,          \* name_pattern.search(text): "unset", "match" or None
    writers,          \* concurrent save_to_cache calls on one key
    loaded,           \* what the last concurrent load_from_cache returned
    written,          \* payloads some save_to_cache call wrote in full
    page_url,         \* extract_article_content: the url given
    server,           \* the server behind it
    extracted,        \* what the call did and returned
    resolver,         \* the image resolver called
    candidates,       \* the image candidates of the entry or page, in order
    ld_blocks,        \* the application/ld+json blocks of the page, in order
    resolved,         \* what the resolver did and returned
    normalizer,       \* the URL normalizer called
    raw_url,          \* the URL given to it
    base,             \* the base URL given to it
    once,             \* absolutize(raw_url, base)
    twice,            \* absolutize(once, base)
    prober,           \* the accessibility probe called
    head_answer,      \* what its HEAD request meets
    get_answer,       \* what its GET request meets
    probe,            \* what the probe sent and returned
    cascade_of,       \* the page-level resolver whose cascade runs
    tiers,            \* strategy -> what the page has for it
    cascade,          \* the strategies evaluated and the one that returned
    key_fn,           \* the entry point deriving cache keys
    key_queries,      \* two queries given to it
    key_range,        \* the date range given with both
    keys,             \* the cache keys it derived for the two
    llm_replies,      \* analyze_sentiment: what the i-th call of the LLM service gives
    word_score,       \* total_score of the word lists on the article
    sentiment,        \* the attempts made and what analyze_sentiment returned
    sum_clock,        \* summarizer: time.time(), in hours
    sum_files,        \* summarizer: argument tuple -> cache file of its key
    memo,             \* lru_cache of _get_cached_summary: argument tuple -> entry
    sum_calls,        \* calls of generate_overall_summary made so far
    saved,            \* the summary this process last generated and saved
    last_summary,     \* the last call: what it returned and whether it asked the LLM
    world             \* feed url -> the entries the feed serves, when feeds are steady

reqVars == <<fn, query, max_articles, date_range>>

loopVars == <<active_feeds, feed_idx, entries, examined, articles, processed_urls,
              db_write, feed_log, last_entry, last_seen>>

retVars == <<rss_path, rss_result, news_path, all_articles, outcome, result>>

pipeVars == <<now, requests, cache, stored, pc, reqVars, loopVars, retVars>>

nameVars == <<name, prefix, core, suffix, name_pattern, matched>>

procVars == <<writers, loaded, written>>

extractVars == <<page_url, server, extracted>>

imageVars == <<resolver, candidates, ld_blocks, resolved>>

urlVars == <<normalizer, raw_url, base, once, twice>>

probeVars == <<prober, head_answer, get_answer, probe>>

cascadeVars == <<cascade_of, tiers, cascade>>

keyVars == <<key_fn, key_queries, key_range, keys>>

sentimentVars == <<llm_replies, word_score, sentiment>>

summaryVars == <<sum_clock, sum_files, memo, sum_calls, saved, last_summary>>

steadyVars == <<world>>

svcVars == <<probeVars, cascadeVars, keyVars, sentimentVars, summaryVars, steadyVars>>

toolVars == <<extractVars, imageVars, urlVars, svcVars>>

vars == <<pipeVars, nameVars, procVars, toolVars>>

CacheKeys ==
    {RssKey(q) : q \in Queries} \cup
    {NewsKey(q, r[1], r[2]) : q \in NewsQueries, r \in DateRanges}

\* no entry visited yet
NoEntry == [entry |-> Entry("", <<>>, None, None, None, None), fetched |-> FALSE]

\* no update_one sent
NoWrite == [url |-> None, last_checked |-> FALSE, last_error |-> ""]

InitPipe ==
    /\ now = 0
    /\ requests = 0
    /\ cache = [k \in CacheKeys |-> NoFile]
    /\ stored = [k \in CacheKeys |-> NoPayload]
    /\ pc = "idle"
    /\ fn = "none"
    /\ query = <<>>
    /\ max_articles = 0
    /\ date_range = <<"", "">>
    /\ active_feeds = <<>>
    /\ feed_idx = 1
    /\ entries = 0
    /\ examined = 0
    /\ articles = <<>>
    /\ processed_urls = {}
    /\ db_write = NoWrite
    /\ feed_log = <<>>
    /\ last_entry = "none"
    /\ last_seen = NoEntry
    /\ rss_path = "none"
    /\ rss_result = <<>>
    /\ news_path = "none"
    /\ all_articles = <<>>
    /\ outcome = "none"
    /\ result = <<>>

\* no name is being matched
InitNameIdle ==
    /\ name = <<>>
    /\ prefix = <<>>
    /\ core = <<>>
    /\ suffix = <<>>
    /\ name_pattern = NoPattern
    /\ matched = "unset"

(***************************************************************************)
(* The request pipeline.                                                   *)
(***************************************************************************)
\* the clock advances; the code reads it only against the mtime of a file
Tick(d) ==
    /\ pc = "idle"
    /\ \E k \in CacheKeys : cache[k].exists
    /\ now + d <= MaxTime
    /\ now' = now + d
    /\ UNCHANGED <<requests, cache, stored, pc, reqVars, loopVars, retVars,
                   nameVars, procVars, toolVars>>

\* a caller invokes search_rss_feeds(q, m)
StartSearch(q, m) ==
    /\ pc = "idle"
    /\ requests < MaxRequests
    /\ requests' = requests + 1
    /\ fn' = "rss"
    /\ query' = q
    /\ max_articles' = m
    /\ date_range' = <<"", "">>
    /\ pc' = "rss_lookup"
    /\ UNCHANGED <<now, cache, stored, loopVars, retVars, nameVars, procVars, toolVars>>

\* a caller invokes get_news_about(q, m, start_date, end_date)
StartNews(q, m, r) ==
    /\ pc = "idle"
    /\ requests < MaxRequests
    /\ requests' = requests + 1
    /\ fn' = "news"
    /\ query' = q
    /\ max_articles' = m
    /\ date_range' = r
    /\ pc' = "news_lookup"
    /\ UNCHANGED <<now, cache, stored, loopVars, retVars, nameVars, procVars, toolVars>>

\* get_news_about: the cache lookup, and the return on a hit
NewsCacheLookup(readable) ==
    /\ pc = "news_lookup"
    /\ LET cached == load_from_cache(
                        cache[NewsKey(query, date_range[1], date_range[2])],
                        now, readable)
       IN  IF Truthy(cached)
           THEN /\ news_path' = "hit"
                /\ result' = Take(cached.v, max_articles)
                /\ outcome' = "returned"
                /\ pc' = "done"
           ELSE /\ news_path' = "miss"
                /\ pc' = "rss_lookup"
                /\ UNCHANGED <<result, outcome>>
    /\ UNCHANGED <<now, requests, cache, stored, reqVars, loopVars, rss_path,
                   rss_result, all_articles, nameVars, procVars, toolVars>>

\* search_rss_feeds returns list: to the caller of the entry point, or into
\* get_news_about
RssReturns(list, path) ==
    /\ rss_path' = path
    /\ rss_result' = list
    /\ IF fn = "rss"
       THEN /\ result' = list
            /\ outcome' = "returned"
            /\ pc' = "done"
       ELSE /\ pc' = "news_merge"
            /\ UNCHANGED <<result, outcome>>

\* a search_rss_feeds that calls get_active_rss_feeds before the lookup
RssCacheLookup_FeedsFirst(readable, feeds) ==
    /\ pc = "rss_lookup"
    /\ active_feeds' = feeds
    /\ LET cached == load_from_cache(cache[RssKey(query)], now, readable)
       IN  IF ~create_name_pattern(query).some
           THEN RssReturns(<<>>, "nopattern")
           ELSE IF Truthy(cached)
           THEN RssReturns(Take(cached.v, max_articles), "hit")
           ELSE /\ rss_path' = "fresh"
                /\ pc' = "poll"
                /\ UNCHANGED <<rss_result, result, outcome>>
    /\ UNCHANGED <<now, requests, cache, stored, reqVars, feed_idx, entries,
                   examined, articles, processed_urls, db_write, feed_log, last_entry,
                   last_seen, news_path, all_articles, nameVars, procVars, toolVars>>

\* search_rss_feeds up to the feed loop: create_name_pattern, the cache
\* lookup and the return on a hit, get_active_rss_feeds on a miss
RssCacheLookup(readable, feeds) ==
    /\ pc = "rss_lookup"
    /\ LET cached == load_from_cache(cache[RssKey(query)], now, readable)
       IN  IF ~create_name_pattern(query).some
           THEN RssReturns(<<>>, "nopattern") /\ UNCHANGED active_feeds
           ELSE IF Truthy(cached)
           THEN RssReturns(Take(cached.v, max_articles), "hit")
                /\ UNCHANGED active_feeds
           ELSE /\ rss_path' = "fresh"
                /\ active_feeds' = feeds
                /\ pc' = "poll"
                /\ UNCHANGED <<rss_result, result, outcome>>
    /\ UNCHANGED <<now, requests, cache, stored, reqVars, feed_idx, entries,
                   examined, articles, processed_urls, db_write, feed_log, last_entry,
                   last_seen, news_path, all_articles, nameVars, procVars, toolVars>>

\* update_one({"url": feed_url}, {"$set": ...}); an exception of the call
\* itself is caught and logged
DbWrite(feed_url, error) ==
    [url |-> feed_url, last_checked |-> TRUE, last_error |-> error]

\* a failed feed that ends the loop instead of the pass
AfterFailedFeed_Break(idx, feeds) == Len(feeds) + 1

\* `continue` in the feed loop: the loop goes on with the next feed
AfterFailedFeed(idx, feeds) == idx + 1

\* one pass of the feed loop up to the entry loop: feedparser.parse and the
\* update of the registry.  last_checked = TRUE stands for a $set of
\* last_checked to datetime.utcnow(), last_error = "" for a $set without
\* last_error
PollFeed(poll) ==
    /\ pc = "poll"
    /\ feed_idx <= Len(active_feeds)
    /\ Len(articles) < max_articles
    /\ feed_log' = Append(feed_log, poll.kind)
    /\ last_entry' = "none"
    /\ last_seen' = NoEntry
    /\ examined' = 0
    /\ CASE poll.kind = "bozo" ->
               /\ feed_idx' = AfterFailedFeed(feed_idx, active_feeds)
               /\ UNCHANGED <<db_write, entries, pc>>
         [] poll.kind = "raise" ->
               /\ db_write' = DbWrite(active_feeds[feed_idx], "error")
               /\ feed_idx' = AfterFailedFeed(feed_idx, active_feeds)
               /\ UNCHANGED <<entries, pc>>
         [] OTHER ->
               /\ db_write' = DbWrite(active_feeds[feed_idx], "")
               /\ entries' = Min(poll.size, ENTRY_LIMIT)
               /\ IF Min(poll.size, ENTRY_LIMIT) = 0
                  THEN feed_idx' = feed_idx + 1 /\ UNCHANGED pc
                  ELSE pc' = "entry" /\ UNCHANGED feed_idx
    /\ UNCHANGED <<now, requests, cache, stored, reqVars, active_feeds, articles,
                   processed_urls, retVars, nameVars, procVars, toolVars>>

\* the entries the current feed can serve
CurrentEntries ==
    IF pc = "entry" THEN FeedEntries(active_feeds[feed_idx]) ELSE {}

\* an entry loop that marks the url of every entry it does not skip, before
\* the record is built
ProcessEntry_MarkFirst(entry, site) ==
    /\ pc = "entry"
    /\ entries > 0
    /\ Len(articles) < max_articles
    /\ examined' = examined + 1
    /\ last_entry' = EntryOutcome(processed_urls, create_name_pattern(query), entry)
    /\ last_seen' = [entry |-> entry,
                     fetched |-> last_entry' = "added" /\ NeedsFullFetch(entry)]
    /\ articles' = AfterEntry(articles, processed_urls, create_name_pattern(query),
                              entry,
                              extract_article_content(clean_url(entry.link), site),
                              active_feeds[feed_idx])
    /\ processed_urls' = IF last_entry' \in {"added", "error", "no_match"}
                         THEN processed_urls \cup {clean_url(entry.link)}
                         ELSE processed_urls
    /\ IF entries = 1 \/ Len(articles') >= max_articles
       THEN entries' = 0 /\ feed_idx' = feed_idx + 1 /\ pc' = "poll"
       ELSE entries' = entries - 1 /\ UNCHANGED <<feed_idx, pc>>
    /\ UNCHANGED <<now, requests, cache, stored, reqVars, active_feeds, db_write,
                   feed_log, retVars, nameVars, procVars, toolVars>>

\* one pass of the entry loop, on an entry whose link is served by site;
\* after the last entry, or once max_articles is reached, the feed loop goes
\* on
ProcessEntry(entry, site) ==
    /\ pc = "entry"
    /\ entries > 0
    /\ Len(articles) < max_articles
    /\ examined' = examined + 1
    /\ last_entry' = EntryOutcome(processed_urls, create_name_pattern(query), entry)
    /\ last_seen' = [entry |-> entry,
                     fetched |-> last_entry' = "added" /\ NeedsFullFetch(entry)]
    /\ articles' = AfterEntry(articles, processed_urls, create_name_pattern(query),
                              entry,
                              extract_article_content(clean_url(entry.link), site),
                              active_feeds[feed_idx])
    /\ processed_urls' = IF last_entry' = "added"
                         THEN processed_urls \cup {clean_url(entry.link)}
                         ELSE processed_urls
    /\ IF entries = 1 \/ Len(articles') >= max_articles
       THEN entries' = 0 /\ feed_idx' = feed_idx + 1 /\ pc' = "poll"
       ELSE entries' = entries - 1 /\ UNCHANGED <<feed_idx, pc>>
    /\ UNCHANGED <<now, requests, cache, stored, reqVars, active_feeds, db_write,
                   feed_log, retVars, nameVars, procVars, toolVars>>

\* the payload a key is known to hold after save_to_cache
StoredAfter(old, data, written_as) ==
    CASE written_as = "ok" -> Some(data)
      [] written_as = "truncated" -> NoPayload
      [] OTHER -> old

\* a search_rss_feeds that caches the list it collected even when it is empty
RssFinish_StoreEmpty(written_as) ==
    /\ pc = "poll"
    /\ (feed_idx > Len(active_feeds) \/ Len(articles) >= max_articles)
    /\ cache' = [cache EXCEPT ![RssKey(query)] =
                    save_to_cache(@, articles, now, written_as)]
    /\ stored' = [stored EXCEPT ![RssKey(query)] =
                    StoredAfter(@, articles, written_as)]
    /\ RssReturns(articles, "fresh")
    /\ UNCHANGED <<now, requests, reqVars, loopVars, news_path, all_articles,
                   nameVars, procVars, toolVars>>

\* the feed loop ends: cache the articles, if any, and return them
RssFinish(written_as) ==
    /\ pc = "poll"
    /\ (feed_idx > Len(active_feeds) \/ Len(articles) >= max_articles)
    /\ IF articles # <<>>
       THEN /\ cache' = [cache EXCEPT ![RssKey(query)] =
                            save_to_cache(@, articles, now, written_as)]
            /\ stored' = [stored EXCEPT ![RssKey(query)] =
                            StoredAfter(@, articles, written_as)]
       ELSE UNCHANGED <<cache, stored>>
    /\ RssReturns(articles, "fresh")
    /\ UNCHANGED <<now, requests, reqVars, loopVars, news_path, all_articles,
                   nameVars, procVars, toolVars>>

\* all_articles: the list of search_rss_feeds, then the articles of the news
\* API unless fetching them raised
AllArticles(rss, api) ==
    rss \o (IF api.kind = "ok"
            THEN [i \in 1..Len(api.list) |-> FromApi(api.list[i])]
            ELSE <<>>)

\* get_news_about after search_rss_feeds: the news API, de-duplication and
\* date filter, the sort, the cache write and the return
NewsMerge(api, written_as) ==
    /\ pc = "news_merge"
    /\ all_articles' = AllArticles(rss_result, api)
    /\ LET unique == UniqueArticles(all_articles', date_range[1], date_range[2])
           key    == NewsKey(query, date_range[1], date_range[2])
       IN  IF SortRaises(unique)
           THEN /\ outcome' = "raised"
                /\ result' = <<>>
                /\ UNCHANGED <<cache, stored>>
           ELSE /\ IF SortByDate(unique) # <<>>
                   THEN /\ cache' = [cache EXCEPT ![key] =
                              save_to_cache(@, SortByDate(unique), now, written_as)]
                        /\ stored' = [stored EXCEPT ![key] =
                              StoredAfter(@, SortByDate(unique), written_as)]
                   ELSE UNCHANGED <<cache, stored>>
                /\ result' = Take(Take(SortByDate(unique), max_articles), max_articles)
                /\ outcome' = "returned"
    /\ pc' = "done"
    /\ UNCHANGED <<now, requests, reqVars, loopVars, rss_path, rss_result,
                   news_path, nameVars, procVars, toolVars>>

\* the caller has the answer; the process is ready for the next request
Finish ==
    /\ pc = "done"
    /\ pc' = "idle"
    /\ fn' = "none"
    /\ query' = <<>>
    /\ max_articles' = 0
    /\ date_range' = <<"", "">>
    /\ active_feeds' = <<>>
    /\ feed_idx' = 1
    /\ entries' = 0
    /\ examined' = 0
    /\ articles' = <<>>
    /\ processed_urls' = {}
    /\ db_write' = NoWrite
    /\ feed_log' = <<>>
    /\ last_entry' = "none"
    /\ last_seen' = NoEntry
    /\ rss_path' = "none"
    /\ rss_result' = <<>>
    /\ news_path' = "none"
    /\ all_articles' = <<>>
    /\ outcome' = "none"
    /\ result' = <<>>
    /\ UNCHANGED <<now, requests, cache, stored, nameVars, procVars, toolVars>>

(***************************************************************************)
(* The name matcher: create_name_pattern(name), then name_pattern.search   *)
(* on a text made of a prefix, a core and a suffix.                        *)
(***************************************************************************)
JaneDoeLower == <<"j","a","n","e"," ","d","o","e">>

JaneDoeQuoted == <<"\"","J","a","n","e"," ","D","o","e","\"">>

JaneDoeSpaced == <<" ","J","a","n","e"," "," ","D","o","e"," ">>

JaneOnly == <<"J","a","n","e">>

Names == {JaneDoe, JaneDoeLower, JaneDoeQuoted, JaneDoeSpaced, JaneOnly, <<>>}

DoeCommaJane == <<"D","o","e",","," ","J","a","n","e">>

DoeJane == <<"D","o","e"," ","J","a","n","e">>

JaneD == <<"J","a","n","e"," ","D",".">>

JDoe == <<"J","."," ","D","o","e">>

JaneDoering == <<"J","a","n","e"," ","D","o","e","r","i","n","g">>

DoeJaneUpper == <<"D","O","E"," ","J","A","N","E">>

JaneDUpper == <<"J","A","N","E"," ","D",".">>

JDoeLower == <<"j","."," ","d","o","e">>

Cores == {DoeCommaJane, DoeJane, JaneD, JDoe, JaneDoering,
          DoeJaneUpper, JaneDUpper, JDoeLower, JaneDoe}

\* what stands before the core: nothing, a word and a space, an opening
\* parenthesis, or a letter glued to the core
Prefixes == {<<>>, <<"b","y"," ">>, <<"(">>, <<"x">>}

\* what stands after the core: nothing, a space and a word, a comma, or a
\* letter glued to the core
Suffixes == {<<>>, <<" ","s","a","i","d">>, <<",">>, <<"x">>}

\* a prefix or suffix that puts no word character next to the core
Detached(prefix_, suffix_) ==
    /\ (prefix_ = <<>> \/ ~IsWordChar(prefix_[Len(prefix_)]))
    /\ (suffix_ = <<>> \/ ~IsWordChar(suffix_[1]))

InitName ==
    /\ name \in Names
    /\ prefix \in Prefixes
    /\ core \in Cores
    /\ suffix \in Suffixes
    /\ name_pattern = NoPattern
    /\ matched = "unset"

\* name_pattern, search_terms = create_name_pattern(name)
Compile ==
    /\ matched = "unset"
    /\ name_pattern = NoPattern
    /\ create_name_pattern(name).some
    /\ name_pattern' = create_name_pattern(name)
    /\ UNCHANGED <<name, prefix, core, suffix, matched, pipeVars, procVars,
                   toolVars>>

\* name_pattern.search(text) is not None
Search ==
    /\ matched = "unset"
    /\ name_pattern.some
    /\ matched' = IF PatternSearch(name_pattern, prefix \o core \o suffix)
                  THEN "match" ELSE None
    /\ UNCHANGED <<name, prefix, core, suffix, name_pattern, pipeVars, procVars,
                   toolVars>>

(***************************************************************************)
(* Concurrent requests on one cache key.  save_to_cache opens the file     *)
(* with mode 'w', which empties it, and json.dump then reaches the file    *)
(* block by block, each block at the offset of the writer's own file       *)
(* object; one token of the file stands for one block.  load_from_cache    *)
(* reads the file as it is at that moment.                                 *)
(***************************************************************************)
Writers == {"w1", "w2"}

\* save_to_cache calls one writer makes
MaxSaves == 1

\* the key the concurrent requests share
SharedKey == RssKey(JaneDoe)

\* the payloads the concurrent requests aggregated
CachePayloads ==
    { << BuildRecord(E1, "u1", NoPage, "f1") >>,
      << BuildRecord(E1, "u1", NoPage, "f1"), BuildRecord(E3, "u2", NoPage, "f2") >>,
      << BuildRecord(E3, "u2", NoPage, "f1"), BuildRecord(E1, "u1", NoPage, "f2") >> }

IdleWriter == [pc |-> "idle", tokens |-> <<>>, pos |-> 1, saves |-> 0]

\* a gap left by a write beyond the end of the file
Hole == <<"hole">>

\* write(block) at offset pos of a file object opened before the file was
\* emptied again
WriteAt(content, pos, token) ==
    IF pos <= Len(content)
    THEN [content EXCEPT ![pos] = token]
    ELSE content \o [i \in 1..(pos - Len(content) - 1) |-> Hole] \o <<token>>

InitProcsIdle ==
    /\ writers = [w \in Writers |-> IdleWriter]
    /\ loaded = NoPayload
    /\ written = {}

\* open(cache_file, 'w')
SaveOpen(w, data) ==
    /\ writers[w].pc = "idle"
    /\ writers[w].saves < MaxSaves
    /\ writers' = [writers EXCEPT ![w] =
                     [pc |-> "writing", tokens |-> json_dump(data), pos |-> 1,
                      saves |-> @.saves + 1]]
    /\ cache' = [cache EXCEPT ![SharedKey] =
                     [exists |-> TRUE, content |-> <<>>, mtime |-> now]]
    /\ UNCHANGED <<now, requests, stored, pc, reqVars, loopVars, retVars,
                   nameVars, loaded, written, toolVars>>

\* one block of json.dump reaches the file
SaveWrite(w) ==
    /\ writers[w].pc = "writing"
    /\ writers[w].pos <= Len(writers[w].tokens)
    /\ cache' = [cache EXCEPT ![SharedKey].content =
                     WriteAt(@, writers[w].pos, writers[w].tokens[writers[w].pos])]
    /\ writers' = [writers EXCEPT ![w].pos = @ + 1]
    /\ written' = IF writers[w].pos = Len(writers[w].tokens)
                  THEN written \cup {json_load(writers[w].tokens).v}
                  ELSE written
    /\ UNCHANGED <<now, requests, stored, pc, reqVars, loopVars, retVars,
                   nameVars, loaded, toolVars>>

\* the with block closes the file
SaveClose(w) ==
    /\ writers[w].pc = "writing"
    /\ writers[w].pos > Len(writers[w].tokens)
    /\ writers' = [writers EXCEPT ![w].pc = "idle", ![w].tokens = <<>>, ![w].pos = 1]
    /\ UNCHANGED <<now, requests, cache, stored, pc, reqVars, loopVars, retVars,
                   nameVars, loaded, written, toolVars>>

\* a request calls load_from_cache(cache_key)
Load(readable) ==
    /\ loaded' = load_from_cache(cache[SharedKey], now, readable)
    /\ UNCHANGED <<pipeVars, nameVars, writers, written, toolVars>>

(***************************************************************************)
(* The image resolvers.  A resolver walks the image candidates of an entry *)
(* or page in the order of its strategies, and the page-level resolvers    *)
(* the application/ld+json blocks of the page.  What a resolver did is the *)
(* record of: an exception leaving it, the URL returned, and the URLs the  *)
(* network probe confirmed for it.                                         *)
(***************************************************************************)
IsDataUri(u) == u = ImgData

\* validate_image_url_robust: the checks on the text of the URL
validate_image_url_robust(u) == u \in {ImgOk, ImgGone, ImgQuery, ImgData, "img1", "pimg"}

\* is_image_valid of get_article_image: an image extension or path in the text
is_image_valid(u) == u \in {ImgOk, ImgGone, ImgQuery, ImgData, "img1", "pimg"}

\* test_image_accessibility: the HEAD / GET probe; a data: URI makes requests
\* raise, which counts as not accessible
test_image_accessibility(u) == u \in AccessibleImages

\* clean_image_url of extract_image_from_article_robust: the URL without the
\* query parameters that are not about size
clean_image_url(u) == IF u = ImgQuery THEN ImgOk ELSE u

\* test_image_url of extract_image_from_article_robust: a data: URI is taken
\* without a probe
test_image_url(u) == IsDataUri(u) \/ test_image_accessibility(u)

\* EnhancedImageExtractor._is_valid_image: no data: URI, and the probe
is_valid_image(u) == ~IsDataUri(u) /\ test_image_accessibility(u)

NoImage == [raised |-> FALSE, url |-> None, probed |-> {}]

\* the URL is returned after the probe confirmed it, or without a probe
Found(u, was_probed) ==
    [raised |-> FALSE, url |-> u, probed |-> IF was_probed THEN {u} ELSE {}]

Raised == [raised |-> TRUE, url |-> None, probed |-> {}]

\* the first element of the list that passes the test, if any
FirstPassing(list, Passes(_)) ==
    LET hits == {i \in 1..Len(list) : Passes(list[i])}
    IN  IF hits = {} THEN 0 ELSE CHOOSE i \in hits : \A j \in hits : i <= j

EntryWithImage(u) == Entry("u1", TitleMatch, "long", None, None, u)

\* extract_image_from_rss_robust on an entry with these image fields: every
\* return of it sits behind test_image_accessibility
RssImage(fields) ==
    LET i == FirstPassing(fields,
                 LAMBDA u : extract_image_from_rss_robust(EntryWithImage(u)) # None)
    IN  IF i = 0 THEN NoImage ELSE Found(fields[i], TRUE)

\* get_article_image: is_image_valid, make_absolute_url and
\* validate_image_url_robust decide; no request is sent
get_article_image(imgs) ==
    LET i == FirstPassing(imgs,
                 LAMBDA u : is_image_valid(u) /\ validate_image_url_robust(u))
    IN  IF i = 0 THEN NoImage ELSE Found(imgs[i], FALSE)

\* an application/ld+json block: empty, no JSON at all, JSON but for a
\* trailing comma, a JSON number, an object without image, or an object with
\* the image given
LdBlock(kind, image) == [kind |-> kind, image |-> image]

LdBlocks ==
    {LdBlock(k, None) : k \in {"empty", "malformed", "number", "no_image"}}
        \cup {LdBlock(k, u) : k \in {"trailing_comma", "image"},
                              u \in {ImgOk, ImgGone, ImgData}}

\* `except (A, B)` catches the exceptions named, `except Exception` and a
\* bare `except` every one
Catches(handler, e) == "Exception" \in handler \/ e \in handler

\* a handler around the loop that lets TypeError and NameError through
OuterCatches_DecodeOnly(e) == Catches({"JSONDecodeError"}, e)

\* `except Exception as e` around the JSON-LD loop of
\* extract_image_from_article_robust
OuterCatches(e) == Catches({"Exception"}, e)

\* the first JSON-LD loop of extract_image_from_article_robust on one block:
\* json.loads(None) raises TypeError, a parsed block reaches
\* extract_image_from_ld_json before its def, which raises UnboundLocalError
RobustFirstPassError(b) ==
    CASE b.kind = "empty" -> "TypeError"
      [] b.kind \in {"malformed", "trailing_comma"} -> "JSONDecodeError"
      [] OTHER -> "UnboundLocalError"

\* the first loop: "next" when it ends and the next strategy runs, "raised"
\* when an exception leaves the resolver
RECURSIVE RobustFirstPass(_)
RobustFirstPass(blocks) ==
    IF blocks = <<>> THEN "next"
    ELSE IF Catches({"JSONDecodeError", "AttributeError"},
                    RobustFirstPassError(Head(blocks)))
         THEN RobustFirstPass(Tail(blocks))
         ELSE IF OuterCatches(RobustFirstPassError(Head(blocks)))
              THEN "next" ELSE "raised"

\* the second JSON-LD loop: a bare except skips a block that fails; an
\* object with a top-level image gives its cleaned URL when test_image_url
\* accepts it
RobustSecondPass(blocks) ==
    LET i == FirstPassing(blocks,
                 LAMBDA b : b.kind = "image" /\ test_image_url(clean_image_url(b.image)))
    IN  IF i = 0 THEN NoImage
        ELSE Found(clean_image_url(blocks[i].image), ~IsDataUri(blocks[i].image))

\* extract_image_from_article_robust: the candidates of the meta tags and
\* img tags, then the JSON-LD blocks
extract_image_from_article_robust(imgs, blocks) ==
    LET i == FirstPassing(imgs, LAMBDA u : test_image_url(clean_image_url(u)))
    IN  IF i # 0
        THEN Found(clean_image_url(imgs[i]), ~IsDataUri(imgs[i]))
        ELSE IF RobustFirstPass(blocks) = "raised" THEN Raised
        ELSE RobustSecondPass(blocks)

\* the JSON-LD loop of EnhancedImageExtractor._extract_image_from_article on
\* one block: an empty block is skipped, the block is parsed, and parsed
\* again without trailing commas when that fails; `'image' in data` on a
\* number raises TypeError
EnhancedBlockError(b) ==
    CASE b.kind = "malformed" -> "JSONDecodeError"
      [] b.kind = "number" -> "TypeError"
      [] OTHER -> "none"

\* the loop: the image of the first block that parses and whose URL
\* _is_valid_image confirms
RECURSIVE EnhancedLd(_)
EnhancedLd(blocks) ==
    IF blocks = <<>> THEN NoImage
    ELSE IF EnhancedBlockError(Head(blocks)) # "none"
         THEN IF Catches({"JSONDecodeError", "AttributeError", "TypeError"},
                         EnhancedBlockError(Head(blocks)))
              THEN EnhancedLd(Tail(blocks))
              ELSE IF Catches({"Exception"}, EnhancedBlockError(Head(blocks)))
                   THEN NoImage ELSE Raised
         ELSE IF Head(blocks).kind \in {"trailing_comma", "image"}
                    /\ is_valid_image(Head(blocks).image)
              THEN Found(Head(blocks).image, TRUE)
              ELSE EnhancedLd(Tail(blocks))

Resolvers == {"rss", "article_robust", "get_article_image", "enhanced"}

\* most image candidates, and most JSON-LD blocks, of one entry or page
MaxCandidates == 2

ImageUrls == {ImgOk, ImgGone, ImgQuery, ImgData, NotImage}

\* the lists of at most n elements of a set
ListsUpTo(set, n) == UNION {[1..k -> set] : k \in 0..n}

\* no resolver has run
NotResolved == [raised |-> FALSE, url |-> "unset", probed |-> {}]

InitImageIdle ==
    /\ resolver = "none"
    /\ candidates = <<>>
    /\ ld_blocks = <<>>
    /\ resolved = NotResolved

InitImage ==
    /\ resolver \in Resolvers
    /\ candidates \in ListsUpTo(ImageUrls, MaxCandidates)
    /\ ld_blocks \in ListsUpTo(LdBlocks, MaxCandidates)
    /\ resolved = NotResolved

\* the resolver is called on the entry or page
ResolveImage ==
    /\ resolver # "none"
    /\ resolved = NotResolved
    /\ resolved' =
          CASE resolver = "rss" -> RssImage(candidates)
            [] resolver = "article_robust" ->
                   extract_image_from_article_robust(candidates, ld_blocks)
            [] resolver = "get_article_image" -> get_article_image(candidates)
            [] OTHER -> EnhancedLd(ld_blocks)
    /\ UNCHANGED <<resolver, candidates, ld_blocks, pipeVars, nameVars, procVars,
                   extractVars, urlVars, svcVars>>

(***************************************************************************)
(* The URL normalizers.  URLs are texts, character by character.           *)
(***************************************************************************)
NoUrl == [some |-> FALSE, v |-> <<>>]

SomeUrl(v) == [some |-> TRUE, v |-> v]

\* str.startswith(pre)
StartsWith(text, pre) ==
    Len(text) >= Len(pre) /\ SubSeq(text, 1, Len(pre)) = pre

\* text.split(c)[0]: the text before the first c
RECURSIVE Before(_, _)
Before(text, c) ==
    IF text = <<>> \/ Head(text) = c THEN <<>>
    ELSE <<Head(text)>> \o Before(Tail(text), c)

\* the text from the first character of the set on
RECURSIVE FromFirst(_, _)
FromFirst(text, chars) ==
    IF text = <<>> \/ Head(text) \in chars THEN text
    ELSE FromFirst(Tail(text), chars)

\* the text before the first character of the set
RECURSIVE UpToFirst(_, _)
UpToFirst(text, chars) ==
    IF text = <<>> \/ Head(text) \in chars THEN <<>>
    ELSE <<Head(text)>> \o UpToFirst(Tail(text), chars)

\* the text without the characters of the set
RECURSIVE Without(_, _)
Without(text, chars) ==
    IF text = <<>> THEN <<>>
    ELSE IF Head(text) \in chars THEN Without(Tail(text), chars)
    ELSE <<Head(text)>> \o Without(Tail(text), chars)

\* re.sub(r'/{2,}', '/', path)
RECURSIVE CollapseSlashes(_)
CollapseSlashes(path) ==
    IF Len(path) < 2 THEN path
    ELSE IF path[1] = "/" /\ path[2] = "/" THEN CollapseSlashes(Tail(path))
    ELSE <<Head(path)>> \o CollapseSlashes(Tail(path))

\* position of the last c in the text, 0 without one
LastIndexOf(text, c) ==
    LET at == {i \in 1..Len(text) : text[i] = c}
    IN  IF at = {} THEN 0 ELSE CHOOSE i \in at : \A j \in at : j <= i

\* the path without the ;parameters of its last segment
PathOnly(path) ==
    SubSeq(path, 1, LastIndexOf(path, "/"))
        \o Before(SubSeq(path, LastIndexOf(path, "/") + 1, Len(path)), ";")

\* urllib.parse.urlparse(text) of a text with a scheme and "//": tab, CR
\* and LF are dropped from the text first; scheme, netloc and path
urlparse(text) ==
    LET clean  == Without(text, {"\t", "\r", "\n"})
        scheme == Before(clean, ":")
        rest   == SubSeq(clean, Len(scheme) + 4, Len(clean))
        netloc == UpToFirst(rest, {"/", "?", "#"})
        path   == UpToFirst(FromFirst(rest, {"/", "?", "#"}), {"?", "#"})
    IN  [scheme |-> scheme, netloc |-> netloc, path |-> PathOnly(path)]

Http == <<"h","t","t","p",":","/","/">>

Https == <<"h","t","t","p","s",":","/","/">>

IsAbsolute(text) == StartsWith(text, Http) \/ StartsWith(text, Https)

\* urllib.parse.urljoin(base_url, text) for a text without scheme and
\* without leading slash: the text takes the place of the last segment of
\* the base; an empty base gives the text
urljoin(base_url, text) ==
    IF base_url = <<>> THEN text
    ELSE LET b == urlparse(base_url)
         IN  b.scheme \o <<":", "/", "/">> \o b.netloc
                 \o SubSeq(b.path, 1, LastIndexOf(b.path, "/"))
                 \o (IF b.path = <<>> THEN <<"/">> ELSE <<>>) \o text

\* f"{parsed.scheme}://{parsed.netloc}{path}"
Rebuilt(parsed, path) == parsed.scheme \o <<":", "/", "/">> \o parsed.netloc \o path

\* make_absolute_url_robust(image_url, base_url); nothing stands for None
make_absolute_url_robust(image_url, base_url) ==
    IF ~image_url.some \/ image_url.v = <<>> \/ base_url = <<>> THEN NoUrl
    ELSE LET u == Strip(image_url.v, Whitespace)
         IN  IF IsAbsolute(u) THEN SomeUrl(u)
             ELSE IF StartsWith(u, <<"d","a","t","a",":">>) THEN SomeUrl(u)
             ELSE IF StartsWith(u, <<"/", "/">>)
             THEN SomeUrl(urlparse(base_url).scheme \o <<":">> \o u)
             ELSE IF StartsWith(u, <<"/">>)
             THEN SomeUrl(Rebuilt(urlparse(base_url), u))
             ELSE SomeUrl(urljoin(base_url, u))

\* make_absolute_url(image_url, base_url)
make_absolute_url(image_url, base_url) ==
    IF ~image_url.some \/ image_url.v = <<>> THEN NoUrl
    ELSE LET u == Strip(image_url.v, Whitespace)
         IN  IF IsAbsolute(u) THEN SomeUrl(u)
             ELSE IF StartsWith(u, <<"/", "/">>)
             THEN SomeUrl(urlparse(base_url).scheme \o <<":">> \o u)
             ELSE IF StartsWith(u, <<"/">>)
             THEN SomeUrl(Rebuilt(urlparse(base_url), u))
             ELSE SomeUrl(urljoin(base_url, u))

\* EnhancedImageExtractor._make_url_absolute(base_url, url): the text is
\* stripped, cut at its first space, then at "?" and at "#", and an absolute
\* text is rebuilt from its scheme, netloc and path
make_url_absolute(base_url, text) ==
    IF ~text.some \/ Strip(text.v, Whitespace) = <<>> THEN NoUrl
    ELSE LET u == Before(Before(Before(Strip(text.v, Whitespace), " "), "?"), "#")
         IN  IF IsAbsolute(u)
             THEN SomeUrl(Rebuilt(urlparse(u), CollapseSlashes(urlparse(u).path)))
             ELSE IF StartsWith(u, <<"/", "/">>)
             THEN SomeUrl(urlparse(base_url).scheme \o <<":">> \o u)
             ELSE IF StartsWith(u, <<"/">>)
             THEN SomeUrl(Rebuilt(urlparse(base_url), u))
             ELSE SomeUrl(Rebuilt(urlparse(urljoin(base_url, u)),
                                  CollapseSlashes(urlparse(urljoin(base_url, u)).path)))

Normalizers == {"make_absolute_url_robust", "make_absolute_url", "_make_url_absolute"}

\* absolutize(text, base_url) by the normalizer named
Absolutize(which, text, base_url) ==
    CASE which = "make_absolute_url_robust" -> make_absolute_url_robust(text, base_url)
      [] which = "make_absolute_url" -> make_absolute_url(text, base_url)
      [] OTHER -> make_url_absolute(base_url, text)

\* the hosts, paths and endings the URLs of the model are made of
UrlHosts == {Http \o <<"a">>, Https \o <<"a">>}

UrlPaths == {<<>>, <<"/","b">>, <<"/","/","b">>, <<"/","b",";","p">>}

UrlEndings == {<<>>, <<"?","x">>, <<"#","f">>, <<" ","x">>, <<" ">>,
               <<"\t","?","x">>, <<"\f","?","x">>, <<"\f">>}

AbsoluteUrls == {h \o q \o e : h \in UrlHosts, q \in UrlPaths, e \in UrlEndings}

RelativeUrls == {<<"/","/","c","/","d">>, <<"/","d">>, <<"d">>, <<>>,
                 <<"d","a","t","a",":","x">>}

BaseUrls == {Http \o <<"h","/","p">>, <<>>}

\* the normalizer has not been called
NotCalled == [some |-> FALSE, v |-> <<"unset">>]

InitUrlIdle ==
    /\ normalizer = "none"
    /\ raw_url = <<>>
    /\ base = <<>>
    /\ once = NotCalled
    /\ twice = NotCalled

InitUrl ==
    /\ normalizer \in Normalizers
    /\ raw_url \in AbsoluteUrls \cup RelativeUrls
    /\ base \in BaseUrls
    /\ once = NotCalled
    /\ twice = NotCalled

\* once = absolutize(raw_url, base)
AbsolutizeOnce ==
    /\ normalizer # "none"
    /\ once = NotCalled
    /\ once' = Absolutize(normalizer, SomeUrl(raw_url), base)
    /\ UNCHANGED <<normalizer, raw_url, base, twice, pipeVars, nameVars, procVars,
                   extractVars, imageVars, svcVars>>

\* twice = absolutize(once, base)
AbsolutizeAgain ==
    /\ once # NotCalled
    /\ twice = NotCalled
    /\ twice' = Absolutize(normalizer, once, base)
    /\ UNCHANGED <<normalizer, raw_url, base, once, pipeVars, nameVars, procVars,
                   extractVars, imageVars, svcVars>>

(***************************************************************************)
(* extract_article_content called on its own, on any server.               *)
(***************************************************************************)
\* max_retries=3
MAX_RETRIES == 3

\* the function has not been called
NotRun == [attempts |-> 0, ended |-> "unset", url |-> None, page |-> NoPage]

AllSites ==
    [answers : [1..(MAX_RETRIES + 1) -> Answers],
     content_type : ContentTypes, layout : Layouts]

InitExtractIdle ==
    /\ page_url = None
    /\ server = SiteDown
    /\ extracted = NotRun

InitExtract ==
    /\ page_url \in {"u1", "u2"}
    /\ server \in AllSites
    /\ extracted = NotRun

\* article_data = extract_article_content(page_url)
Extract ==
    /\ page_url # None
    /\ extracted = NotRun
    /\ extracted' = ExtractRun(page_url, server)
    /\ UNCHANGED <<page_url, server, pipeVars, nameVars, procVars, imageVars,
                   urlVars, svcVars>>

(***************************************************************************)
(* The accessibility probes: a HEAD request, then a GET request.           *)
(***************************************************************************)
\* status codes the requests of a probe are answered with
ProbeStatuses == {200, 404, 405, 503}

ImagePrefix == <<"i","m","a","g","e","/">>

ImageWord == <<"i","m","a","g","e">>

\* content-type headers: absent, image/png as "IMAGE/png", text/html, and
\* a type that holds the word image without beginning with it
ContentTypeHeaders ==
    {<<>>, <<"I","M","A","G","E","/","p","n","g">>,
     <<"t","e","x","t","/","h","t","m","l">>,
     <<"a","p","p","/","i","m","a","g","e">>}

\* a response, with whether iter_content gives a first chunk; or the request
\* raised (timeout, connection error)
Response(status, content_type, chunk) ==
    [raised |-> FALSE, status |-> status, content_type |-> content_type,
     chunk |-> chunk]

RequestRaised == [raised |-> TRUE, status |-> 0, content_type |-> <<>>, chunk |-> FALSE]

HeadAnswers ==
    {RequestRaised} \cup
    {Response(st, ct, FALSE) : st \in ProbeStatuses, ct \in ContentTypeHeaders}

GetAnswers ==
    {RequestRaised} \cup
    {Response(st, ct, ch) : st \in ProbeStatuses, ct \in ContentTypeHeaders,
                            ch \in BOOLEAN}

\* `word in text`
Contains(text, word) ==
    \E i \in 1..(Len(text) - Len(word) + 1) :
        SubSeq(text, i, i + Len(word) - 1) = word

\* the word image anywhere in the content type
IsImageAnswer_Anywhere(r) ==
    r.status = 200 /\ Contains(Lower(r.content_type), ImageWord)

\* response.status_code == 200 and
\* response.headers.get('content-type', '').lower().startswith('image/')
IsImageAnswer(r) ==
    r.status = 200 /\ StartsWith(Lower(r.content_type), ImagePrefix)

\* what a probe did: the requests it sent, the value it returned, and
\* whether an exception left it
ProbeResult(value, sent) == [raised |-> FALSE, result |-> value, sent |-> sent]

\* test_image_accessibility(url): the whole body is in a try whose except
\* passes to `return False`
ProbeAccessibility(head, get) ==
    IF head.raised THEN ProbeResult(FALSE, <<"HEAD">>)
    ELSE IF IsImageAnswer(head) THEN ProbeResult(TRUE, <<"HEAD">>)
    ELSE IF get.raised THEN ProbeResult(FALSE, <<"HEAD", "GET">>)
    ELSE ProbeResult(IsImageAnswer(get), <<"HEAD", "GET">>)

\* test_image_url(url) of extract_image_from_article_robust, for a url that
\* is no data: URI: the GET is sent after a 405 or a 5xx only
ProbeImageUrl(head, get) ==
    IF head.raised THEN ProbeResult(FALSE, <<"HEAD">>)
    ELSE IF head.status = 405 \/ head.status >= 500
    THEN IF get.raised \/ ~get.chunk THEN ProbeResult(FALSE, <<"HEAD", "GET">>)
         ELSE ProbeResult(get.status = 200
                              /\ Contains(Lower(get.content_type), ImageWord),
                          <<"HEAD", "GET">>)
    ELSE ProbeResult(head.status = 200
                         /\ Contains(Lower(head.content_type), ImageWord),
                     <<"HEAD">>)

Probers == {"test_image_accessibility", "test_image_url"}

\* no probe has run
NotProbed == [raised |-> FALSE, result |-> FALSE, sent |-> <<>>]

InitProbeIdle ==
    /\ prober = "none"
    /\ head_answer = RequestRaised
    /\ get_answer = RequestRaised
    /\ probe = NotProbed

InitProbe ==
    /\ prober \in Probers
    /\ head_answer \in HeadAnswers
    /\ get_answer \in GetAnswers
    /\ probe = NotProbed

\* the probe is called on a url whose server gives these answers
Probe ==
    /\ prober # "none"
    /\ probe = NotProbed
    /\ probe' = IF prober = "test_image_accessibility"
                THEN ProbeAccessibility(head_answer, get_answer)
                ELSE ProbeImageUrl(head_answer, get_answer)
    /\ UNCHANGED <<prober, head_answer, get_answer, pipeVars, nameVars, procVars,
                   extractVars, imageVars, urlVars, cascadeVars, keyVars,
                   sentimentVars, summaryVars, steadyVars>>

(***************************************************************************)
(* The strategy cascades of the page-level image resolvers.  A page has,   *)
(* for each strategy, nothing, a candidate the strategy rejects, or a      *)
(* candidate it accepts.                                                   *)
(***************************************************************************)
\* meta tags, JSON-LD blocks, images of the article containers, inline
\* background-image styles, images of the whole page
Strategies == {"meta", "json_ld", "dom", "background", "page"}

Findings == {"none", "rejected", "accepted"}

\* extract_image_from_article_robust: Priority 1 meta tags, Priority 2
\* article content images, Priority 3 OpenGraph / Twitter tags, Priority 4
\* all page images, Priority 5 and the loop after it JSON-LD, then the
\* images of the article and its background images
RobustCascade == <<"meta", "dom", "meta", "page", "json_ld", "dom", "background">>

\* EnhancedImageExtractor._extract_image_from_article: 1-3 meta tags,
\* 4 JSON-LD, 5 header image and selectors, then the best-scored image
EnhancedCascade == <<"meta", "json_ld", "dom", "page">>

\* the strategies in order until one returns: the position of the first
\* strategy of the cascade the page has an accepted candidate for
RunCascade(order, page) ==
    LET hits == {i \in 1..Len(order) : page[order[i]] = "accepted"}
        first == IF hits = {} THEN 0 ELSE CHOOSE i \in hits : \A j \in hits : i <= j
    IN  IF first = 0
        THEN [done |-> TRUE, evaluated |-> order, returned |-> None]
        ELSE [done |-> TRUE, evaluated |-> SubSeq(order, 1, first),
              returned |-> order[first]]

PageResolvers == {"extract_image_from_article_robust", "_extract_image_from_article"}

NotCascaded == [done |-> FALSE, evaluated |-> <<>>, returned |-> None]

InitCascadeIdle ==
    /\ cascade_of = "none"
    /\ tiers = [t \in Strategies |-> "none"]
    /\ cascade = NotCascaded

InitCascade ==
    /\ cascade_of \in PageResolvers
    /\ tiers \in [Strategies -> Findings]
    /\ cascade = NotCascaded

\* the resolver is called on the page
ResolvePage ==
    /\ cascade_of # "none"
    /\ ~cascade.done
    /\ cascade' = RunCascade(IF cascade_of = "extract_image_from_article_robust"
                             THEN RobustCascade ELSE EnhancedCascade, tiers)
    /\ UNCHANGED <<cascade_of, tiers, pipeVars, nameVars, procVars,
                   extractVars, imageVars, urlVars, probeVars, keyVars,
                   sentimentVars, summaryVars, steadyVars>>

(***************************************************************************)
(* The cache keys of the two entry points.                                 *)
(***************************************************************************)
\* queries that differ in letter case, and queries that differ otherwise
KeyQueries ==
    {JaneDoe, Lower(JaneDoe), <<"J","A","N","E"," ","D","O","E">>,
     <<"D","o","e"," ","J","a","n","e">>, <<"J","a","n","e">>}

EntryPoints == {"search_rss_feeds", "get_news_about"}

\* the cache key the entry point looks up and saves under
CacheKeyOf(entry_point, q, range) ==
    IF entry_point = "search_rss_feeds" THEN RssKey(q)
    ELSE NewsKey(q, range[1], range[2])

NoKeys == <<>>

InitKeysIdle ==
    /\ key_fn = "none"
    /\ key_queries = <<>>
    /\ key_range = NoRange
    /\ keys = NoKeys

InitKeys ==
    /\ key_fn \in EntryPoints
    /\ key_queries \in KeyQueries \X KeyQueries
    /\ key_range \in DateRanges
    /\ keys = NoKeys

\* the entry point is called with the one query, and with the other
DeriveKeys ==
    /\ key_fn # "none"
    /\ keys = NoKeys
    /\ keys' = <<CacheKeyOf(key_fn, key_queries[1], key_range),
                 CacheKeyOf(key_fn, key_queries[2], key_range)>>
    /\ UNCHANGED <<key_fn, key_queries, key_range, pipeVars, nameVars, procVars,
                   extractVars, imageVars, urlVars, probeVars, cascadeVars,
                   sentimentVars, summaryVars, steadyVars>>

(***************************************************************************)
(* analyze_sentiment and fallback_sentiment_analysis.  Scores are in       *)
(* hundredths.                                                             *)
(***************************************************************************)
\* max_retries = 3
SENTIMENT_RETRIES == 3

\* what one call of client.chat.completions.create gives: an exception of
\* the service, a rate-limit error, a text that is no JSON, an object
\* without one of the required fields, or an object with all of them whose
\* Score is a number, NaN, or a text that is no number
LlmReply(kind, score) == [kind |-> kind, score |-> score]

LlmReplies ==
    {LlmReply(k, 0) : k \in {"service_error", "rate_limit", "invalid_json",
                             "missing_field", "nan", "score_text"}}
        \cup {LlmReply("scored", v) : v \in {-101, -100, 0, 75, 100, 101}}

\* a response accepted whatever its score
ScoreInRange_Any(score) == TRUE

\* `-1 <= score <= 1`
ScoreInRange(score) == -100 <= score /\ score <= 100

\* the body of the try raises: create, json.loads, the required fields,
\* float(result["Score"]) or the range check; a comparison with NaN is false
AttemptRaises(reply) ==
    \/ reply.kind \in {"service_error", "rate_limit", "invalid_json",
                       "missing_field", "nan", "score_text"}
    \/ reply.kind = "scored" /\ ~ScoreInRange(reply.score)

\* total_score values of the word lists: positive_score + pattern_score -
\* negative_score
WordScores == {-12, -3, 0, 2, 9}

\* fallback_sentiment_analysis: round(normalized_score, 2), capped at 0.8
FallbackScore(total_score) ==
    IF total_score > 0 THEN Min(80, total_score * 10)
    ELSE IF total_score < 0 THEN -Min(80, -(total_score * 10))
    ELSE 0

\* analyze_sentiment between two attempts
Analysing(calls) == [done |-> FALSE, calls |-> calls, via |-> "none", score |-> 0]

\* analyze_sentiment has returned result, from the LLM or from the fallback
Analysed(calls, via, score) == [done |-> TRUE, calls |-> calls, via |-> via, score |-> score]

InitSentimentIdle ==
    /\ llm_replies = <<>>
    /\ word_score = 0
    /\ sentiment = Analysing(0)

InitSentiment ==
    /\ llm_replies \in [1..SENTIMENT_RETRIES -> LlmReplies]
    /\ word_score \in WordScores
    /\ sentiment = Analysing(0)

\* one pass of `for attempt in range(max_retries)`: the call, the checks of
\* the response, the return, or the handler of the exception
Attempt ==
    /\ llm_replies # <<>>
    /\ ~sentiment.done
    /\ sentiment.calls < SENTIMENT_RETRIES
    /\ LET reply == llm_replies[sentiment.calls + 1]
       IN  sentiment' =
             IF ~AttemptRaises(reply)
             THEN Analysed(sentiment.calls + 1, "llm", reply.score)
             ELSE IF sentiment.calls + 1 = SENTIMENT_RETRIES
             THEN Analysed(sentiment.calls + 1, "fallback", FallbackScore(word_score))
             ELSE Analysing(sentiment.calls + 1)
    /\ UNCHANGED <<llm_replies, word_score, pipeVars, nameVars, procVars,
                   extractVars, imageVars, urlVars, probeVars, cascadeVars,
                   keyVars, summaryVars, steadyVars>>

(***************************************************************************)
(* summarizer.generate_overall_summary for one company: the cache file of  *)
(* the key, the lru_cache in front of it, and the LLM call.                *)
(***************************************************************************)
\* CACHE_TTL = 86400 of summarizer.py, in hours
SUMMARY_TTL == 24

\* calls of generate_overall_summary in one behaviour
MaxSummaryCalls == 3

\* the urls of the articles in the orders a caller passes them
UrlOrders == {<<"u1", "u2">>, <<"u2", "u1">>}

\* tuple(sorted(a.get('url', '') for a in articles))
SortedUrls(urls) == IF urls[1] = "u1" THEN urls ELSE <<urls[2], urls[1]>>

\* response.choices[0].message.content of an attempt that succeeds: a
\* summary or an empty text; or every attempt raised
SummaryReplies == {"s1", "s2", "", "failed"}

NoSummaryFile == [exists |-> FALSE, data |-> None, mtime |-> 0]

\* load_from_cache(cache_key) of summarizer.py, then cached.get('data')
CachedData(file, clock) ==
    IF file.exists /\ ~(clock - file.mtime > SUMMARY_TTL) THEN file.data ELSE None

\* _get_cached_summary under lru_cache: the value computed by an earlier
\* call with these arguments, whatever it was, or else the value read now
GetCachedSummary(entry, file, clock) ==
    IF entry.cached THEN entry.value ELSE CachedData(file, clock)

NotCached == [cached |-> FALSE, value |-> None]

NoSaved == [some |-> FALSE, v |-> None, at |-> 0]

NoCall == [returned |-> None, llm_called |-> FALSE, at |-> 0, prior |-> NoSaved]

InitSummaryIdle ==
    /\ sum_clock = 0
    /\ sum_files = [k \in UrlOrders |-> NoSummaryFile]
    /\ memo = [k \in UrlOrders |-> NotCached]
    /\ sum_calls = MaxSummaryCalls
    /\ saved = NoSaved
    /\ last_summary = NoCall

InitSummary ==
    /\ sum_clock = 0
    /\ sum_files = [k \in UrlOrders |-> NoSummaryFile]
    /\ memo = [k \in UrlOrders |-> NotCached]
    /\ sum_calls = 0
    /\ saved = NoSaved
    /\ last_summary = NoCall

\* time passes
SummaryTick(d) ==
    /\ sum_calls < MaxSummaryCalls
    /\ sum_clock + d <= MaxTime
    /\ sum_clock' = sum_clock + d
    /\ UNCHANGED <<sum_files, memo, sum_calls, saved, last_summary, pipeVars,
                   nameVars, procVars, extractVars, imageVars, urlVars, probeVars,
                   cascadeVars, keyVars, sentimentVars, steadyVars>>

\* the server process is started anew: its lru_cache is empty
SummaryRestart ==
    /\ sum_calls < MaxSummaryCalls
    /\ \E k \in UrlOrders : memo[k].cached
    /\ memo' = [k \in UrlOrders |-> NotCached]
    /\ saved' = NoSaved
    /\ UNCHANGED <<sum_clock, sum_files, sum_calls, last_summary, pipeVars,
                   nameVars, procVars, extractVars, imageVars, urlVars, probeVars,
                   cascadeVars, keyVars, sentimentVars, steadyVars>>

\* generate_overall_summary(company, articles) with the articles in this
\* order: the lookup, the return on a hit, else the LLM call, the save of a
\* summary that is not blank, and the return
Summarize(urls, reply, written_as) ==
    /\ sum_calls < MaxSummaryCalls
    /\ sum_calls' = sum_calls + 1
    /\ LET k      == SortedUrls(urls)
           cached == GetCachedSummary(memo[k], sum_files[k], sum_clock)
       IN  /\ memo' = [memo EXCEPT ![k] = [cached |-> TRUE, value |-> cached]]
           /\ IF cached \notin {None, ""}
              THEN /\ last_summary' = [returned |-> cached, llm_called |-> FALSE,
                                       at |-> sum_clock, prior |-> saved]
                   /\ UNCHANGED <<sum_files, saved>>
              ELSE /\ last_summary' =
                         [returned |-> IF reply = "failed" THEN None ELSE reply,
                          llm_called |-> TRUE, at |-> sum_clock, prior |-> saved]
                   /\ IF reply \notin {"failed", ""} /\ written_as = "ok"
                      THEN /\ sum_files' = [sum_files EXCEPT ![k] =
                                 [exists |-> TRUE, data |-> reply, mtime |-> sum_clock]]
                           /\ saved' = [some |-> TRUE, v |-> reply, at |-> sum_clock]
                      ELSE UNCHANGED <<sum_files, saved>>
    /\ UNCHANGED <<sum_clock, pipeVars, nameVars, procVars, extractVars, imageVars,
                   urlVars, probeVars, cascadeVars, keyVars, sentimentVars, steadyVars>>

(***************************************************************************)
(* search_rss_feeds as one step, over feeds that do not change: the        *)
(* registry lists the same feeds and each feed serves the same entries in  *)
(* the same order at every poll, from a site that answers.                 *)
(***************************************************************************)
SteadyFeeds == <<"f1", "f2">>

Worlds ==
    [{"f1", "f2"} -> {<<>>, <<E1>>, <<E1, E3>>, <<E5, E1>>, <<E7>>, <<E2, E7>>}]

\* the entry loop from entry i on; run is [articles, processed_urls]
RECURSIVE EntryLoop(_, _, _, _, _, _)
EntryLoop(run, pattern, feed_entries, feed_url, m, i) ==
    IF i > Len(feed_entries) \/ Len(run.articles) >= m
    THEN run
    ELSE EntryLoop(
             [articles |-> AfterEntry(run.articles, run.processed_urls, pattern,
                              feed_entries[i],
                              extract_article_content(clean_url(feed_entries[i].link),
                                                      SiteUp),
                              feed_url),
              processed_urls |->
                  IF EntryOutcome(run.processed_urls, pattern, feed_entries[i]) = "added"
                  THEN run.processed_urls \cup {clean_url(feed_entries[i].link)}
                  ELSE run.processed_urls],
             pattern, feed_entries, feed_url, m, i + 1)

\* the feed loop from feed j on
RECURSIVE FeedLoop(_, _, _, _, _, _)
FeedLoop(run, pattern, served, feeds, m, j) ==
    IF j > Len(feeds) \/ Len(run.articles) >= m
    THEN run.articles
    ELSE FeedLoop(EntryLoop(run, pattern, Take(served[feeds[j]], ENTRY_LIMIT),
                            feeds[j], m, 1),
                  pattern, served, feeds, m, j + 1)

\* what search_rss_feeds(q, m) collects when it finds nothing in the cache
FreshRun(served, q, m) ==
    IF ~create_name_pattern(q).some THEN <<>>
    ELSE FeedLoop([articles |-> <<>>, processed_urls |-> {}],
                  create_name_pattern(q), served, SteadyFeeds, m, 1)

InitSteadyIdle == world = [f \in {"f1", "f2"} |-> <<>>]

InitSteady == world \in Worlds

\* search_rss_feeds(q, m) from the call to the return
SteadySearch(q, m, readable, written_as) ==
    /\ pc = "idle"
    /\ requests < MaxRequests
    /\ requests' = requests + 1
    /\ query' = q
    /\ max_articles' = m
    /\ LET cached == load_from_cache(cache[RssKey(q)], now, readable)
           fresh  == FreshRun(world, q, m)
       IN  IF ~create_name_pattern(q).some
           THEN /\ rss_path' = "nopattern"
                /\ rss_result' = <<>>
                /\ UNCHANGED <<cache, stored>>
           ELSE IF Truthy(cached)
           THEN /\ rss_path' = "hit"
                /\ rss_result' = Take(cached.v, m)
                /\ UNCHANGED <<cache, stored>>
           ELSE /\ rss_path' = "fresh"
                /\ rss_result' = fresh
                /\ IF fresh # <<>>
                   THEN /\ cache' = [cache EXCEPT ![RssKey(q)] =
                                        save_to_cache(@, fresh, now, written_as)]
                        /\ stored' = [stored EXCEPT ![RssKey(q)] =
                                        StoredAfter(@, fresh, written_as)]
                   ELSE UNCHANGED <<cache, stored>>
    /\ result' = rss_result'
    /\ outcome' = "returned"
    /\ UNCHANGED <<now, pc, fn, date_range, loopVars, news_path, all_articles,
                   nameVars, procVars, toolVars>>

InitSvcIdle ==
    InitProbeIdle /\ InitCascadeIdle /\ InitKeysIdle /\ InitSentimentIdle
        /\ InitSummaryIdle /\ InitSteadyIdle

(***************************************************************************)
(* Specifications.                                                         *)
(***************************************************************************)
\* the steps of a request once it has started
NextRun ==
    \/ \E readable \in BOOLEAN : NewsCacheLookup(readable)
    \/ \E readable \in BOOLEAN, feeds \in FeedLists : RssCacheLookup(readable, feeds)
    \/ \E poll \in PollOutcomes : PollFeed(poll)
    \/ \E entry \in CurrentEntries, site \in Sites : ProcessEntry(entry, site)
    \/ \E written_as \in WriteOutcomes : RssFinish(written_as)
    \/ \E api \in ApiOutcomes, written_as \in WriteOutcomes : NewsMerge(api, written_as)

InitToolsIdle == InitExtractIdle /\ InitImageIdle /\ InitUrlIdle /\ InitSvcIdle

Init == InitPipe /\ InitNameIdle /\ InitProcsIdle /\ InitToolsIdle

Next ==
    \/ \E d \in TickSteps : Tick(d)
    \/ \E q \in Queries, m \in 0..MaxArticles : StartSearch(q, m)
    \/ \E q \in NewsQueries, m \in 0..MaxArticles : StartNews(q, m, NoRange)
    \/ NextRun
    \/ Finish

\* requests without a date range, served one after the other by one process
\* on one cache directory
Spec == Init /\ [][Next]_vars

NextDates ==
    \/ \E q \in NewsQueries, m \in 0..MaxArticles, r \in DateRanges : StartNews(q, m, r)
    \/ \E readable \in BOOLEAN : NewsCacheLookup(readable)
    \/ \E readable \in BOOLEAN, feeds \in FeedLists : RssCacheLookup(readable, feeds)
    \/ \E poll \in PollOutcomes : PollFeed(poll)
    \/ \E entry \in CurrentEntries, site \in Sites : ProcessEntry(entry, site)
    \/ \E written_as \in WriteOutcomes : RssFinish(written_as)
    \/ \E api \in ApiOutcomesDated, written_as \in WriteOutcomes :
          NewsMerge(api, written_as)

\* one get_news_about request, with or without a date range, on an empty
\* cache directory
SpecDates == Init /\ [][NextDates]_vars

InitNameSpec == InitPipe /\ InitName /\ InitProcsIdle /\ InitToolsIdle

NextName == Compile \/ Search

\* create_name_pattern and the search with its pattern, on the names and texts
\* of the model
SpecName == InitNameSpec /\ [][NextName]_vars

InitCacheSpec == InitPipe /\ InitNameIdle /\ InitProcsIdle /\ InitToolsIdle

NextCache ==
    \/ \E w \in Writers, data \in CachePayloads : SaveOpen(w, data)
    \/ \E w \in Writers : SaveWrite(w)
    \/ \E w \in Writers : SaveClose(w)
    \/ \E readable \in BOOLEAN : Load(readable)

\* requests of several server processes on one cache key
SpecCache == InitCacheSpec /\ [][NextCache]_vars

InitExtractSpec ==
    InitPipe /\ InitNameIdle /\ InitProcsIdle
        /\ InitExtract /\ InitImageIdle /\ InitUrlIdle /\ InitSvcIdle

NextExtract == Extract

\* one call of extract_article_content, on any url and server of the model
SpecExtract == InitExtractSpec /\ [][NextExtract]_vars

InitImageSpec ==
    InitPipe /\ InitNameIdle /\ InitProcsIdle
        /\ InitExtractIdle /\ InitImage /\ InitUrlIdle /\ InitSvcIdle

NextImage == ResolveImage

\* one call of an image resolver, on the candidates and JSON-LD blocks of the
\* model
SpecImage == InitImageSpec /\ [][NextImage]_vars

InitUrlSpec ==
    InitPipe /\ InitNameIdle /\ InitProcsIdle
        /\ InitExtractIdle /\ InitImageIdle /\ InitUrl /\ InitSvcIdle

NextUrl == AbsolutizeOnce \/ AbsolutizeAgain

\* a URL normalizer applied to a URL of the model, and again to its result
SpecUrl == InitUrlSpec /\ [][NextUrl]_vars

NextLimits ==
    \/ \E m \in 0..MaxArticles : StartSearch(JaneDoe, m)
    \/ \E readable \in BOOLEAN, feeds \in FeedLists : RssCacheLookup(readable, feeds)
    \/ \E poll \in PollOutcomesLong : PollFeed(poll)
    \/ \E entry \in CurrentEntries, site \in Sites : ProcessEntry(entry, site)
    \/ \E written_as \in WriteOutcomes : RssFinish(written_as)

\* one search_rss_feeds request on feeds of up to ENTRY_LIMIT + 1 entries
SpecLimits == Init /\ [][NextLimits]_vars

InitProbeSpec ==
    InitPipe /\ InitNameIdle /\ InitProcsIdle
        /\ InitExtractIdle /\ InitImageIdle /\ InitUrlIdle
        /\ InitProbe /\ InitCascadeIdle /\ InitKeysIdle /\ InitSentimentIdle
        /\ InitSummaryIdle /\ InitSteadyIdle

NextProbe == Probe

\* one call of an accessibility probe, on any answers of the model
SpecProbe == InitProbeSpec /\ [][NextProbe]_vars

InitCascadeSpec ==
    InitPipe /\ InitNameIdle /\ InitProcsIdle
        /\ InitExtractIdle /\ InitImageIdle /\ InitUrlIdle
        /\ InitProbeIdle /\ InitCascade /\ InitKeysIdle /\ InitSentimentIdle
        /\ InitSummaryIdle /\ InitSteadyIdle

NextCascade == ResolvePage

\* one call of a page-level image resolver, on any page of the model
SpecCascade == InitCascadeSpec /\ [][NextCascade]_vars

InitKeysSpec ==
    InitPipe /\ InitNameIdle /\ InitProcsIdle
        /\ InitExtractIdle /\ InitImageIdle /\ InitUrlIdle
        /\ InitProbeIdle /\ InitCascadeIdle /\ InitKeys /\ InitSentimentIdle
        /\ InitSummaryIdle /\ InitSteadyIdle

NextKeys == DeriveKeys

\* the cache keys of an entry point for two queries
SpecKeys == InitKeysSpec /\ [][NextKeys]_vars

InitSentimentSpec ==
    InitPipe /\ InitNameIdle /\ InitProcsIdle
        /\ InitExtractIdle /\ InitImageIdle /\ InitUrlIdle
        /\ InitProbeIdle /\ InitCascadeIdle /\ InitKeysIdle /\ InitSentiment
        /\ InitSummaryIdle /\ InitSteadyIdle

NextSentiment == Attempt

\* one call of analyze_sentiment, on any replies of the LLM service
SpecSentiment == InitSentimentSpec /\ [][NextSentiment]_vars

InitSummarySpec ==
    InitPipe /\ InitNameIdle /\ InitProcsIdle
        /\ InitExtractIdle /\ InitImageIdle /\ InitUrlIdle
        /\ InitProbeIdle /\ InitCascadeIdle /\ InitKeysIdle /\ InitSentimentIdle
        /\ InitSummary /\ InitSteadyIdle

NextSummary ==
    \/ \E d \in {1, SUMMARY_TTL} : SummaryTick(d)
    \/ SummaryRestart
    \/ \E urls \in UrlOrders, reply \in SummaryReplies, written_as \in WriteOutcomes :
          Summarize(urls, reply, written_as)

\* calls of generate_overall_summary for one company and one set of articles
SpecSummary == InitSummarySpec /\ [][NextSummary]_vars

InitSteadySpec ==
    InitPipe /\ InitNameIdle /\ InitProcsIdle
        /\ InitExtractIdle /\ InitImageIdle /\ InitUrlIdle
        /\ InitProbeIdle /\ InitCascadeIdle /\ InitKeysIdle /\ InitSentimentIdle
        /\ InitSummaryIdle /\ InitSteady

NextSteady ==
    \/ \E d \in TickSteps : Tick(d)
    \/ \E q \in Queries, m \in 0..MaxArticles, readable \in BOOLEAN,
          written_as \in WriteOutcomes : SteadySearch(q, m, readable, written_as)

\* calls of search_rss_feeds over feeds that do not change
SpecSteady == InitSteadySpec /\ [][NextSteady]_vars

(***************************************************************************)
(* Properties.                                                             *)
(***************************************************************************)
\* search_rss_feeds has returned on the path that polls the feeds
RssReturnedFresh == rss_path = "fresh" /\ pc \in {"done", "news_merge"}

\* C1: the list search_rss_feeds returns, and the list it is collecting,
\* never holds two records with the same url
C1_NoDuplicateUrl ==
    /\ NoDuplicateUrls(articles)
    /\ NoDuplicateUrls(rss_result)
    /\ (fn = "rss" => NoDuplicateUrls(result))

\* both feeds answered, the first gave the article of E1, the last entry of
\* the second carried the same link again, and the record is returned once
C1_Witness ==
    /\ pc = "done" /\ fn = "rss" /\ rss_path = "fresh"
    /\ feed_log = <<"ok", "ok">>
    /\ last_entry = "duplicate"
    /\ result = << BuildRecord(E1, "u1", NoPage, "f1") >>

\* C2: a feed that fails never ends the aggregation: when search_rss_feeds
\* returns from the feed loop every active feed has been polled, unless
\* max_articles was reached, and what it returns is the list collected
C2_BadFeedNeverAborts ==
    RssReturnedFresh =>
        /\ rss_result = articles
        /\ (fn = "rss" => outcome = "returned" /\ result = articles)
        /\ (Len(feed_log) = Len(active_feeds) \/ Len(articles) >= max_articles)

\* the first feed raised, the second was still polled and its record is
\* returned
C2_Witness ==
    /\ pc = "done" /\ fn = "rss" /\ rss_path = "fresh"
    /\ feed_log = <<"raise", "ok">>
    /\ db_write.url = "f2"
    /\ Len(articles) = 1
    /\ result = articles

\* C3: a payload saved with success is what load_from_cache returns as long
\* as the file is not older than CACHE_TTL and was not written again, and a
\* hit of search_rss_feeds returns the first max_articles records of it
C3_CacheRoundTrip ==
    /\ \A k \in CacheKeys :
          stored[k].some /\ now - cache[k].mtime <= CACHE_TTL
              => load_from_cache(cache[k], now, TRUE) = stored[k]
    /\ (pc = "done" /\ fn = "rss" /\ rss_path = "hit"
          => /\ stored[RssKey(query)].some
             /\ result = Take(stored[RssKey(query)].v, max_articles))

\* a payload of two records is read back exactly CACHE_TTL after its write
C3_Witness ==
    /\ pc = "done" /\ fn = "rss" /\ rss_path = "hit"
    /\ now - cache[RssKey(query)].mtime = CACHE_TTL
    /\ Len(result) = 2
    /\ result = stored[RssKey(query)].v

\* C4: a file older than CACHE_TTL is a miss although it exists, so no
\* request answers from it
C4_ExpiredIsAbsent ==
    /\ \A k \in CacheKeys :
          cache[k].exists /\ now - cache[k].mtime > CACHE_TTL
              => load_from_cache(cache[k], now, TRUE) = NoPayload
    /\ (rss_path = "hit" => now - cache[RssKey(query)].mtime <= CACHE_TTL)
    /\ (news_path = "hit" =>
          now - cache[NewsKey(query, date_range[1], date_range[2])].mtime <= CACHE_TTL)

\* the file of the query holds a payload and is older than CACHE_TTL, and
\* the request polled the feeds
C4_Witness ==
    /\ pc = "done" /\ fn = "rss" /\ rss_path = "fresh"
    /\ cache[RssKey(query)].exists
    /\ now - cache[RssKey(query)].mtime > CACHE_TTL
    /\ Truthy(json_load(cache[RssKey(query)].content))
    /\ feed_log # <<>>

\* C5: a file that cannot be read or is no JSON document is a miss, and
\* search_rss_feeds returns what it collected whatever the cache write did
C5_CacheFailuresHidden ==
    /\ \A k \in CacheKeys :
          cache[k].exists => load_from_cache(cache[k], now, FALSE) = NoPayload
    /\ \A k \in CacheKeys :
          cache[k].exists /\ ~WellFormed(cache[k].content)
              => load_from_cache(cache[k], now, TRUE) = NoPayload
    /\ (RssReturnedFresh /\ fn = "rss" => outcome = "returned" /\ result = articles)

\* the file held a valid payload the request could not read, the request
\* collected other records, could not write them, and returned them
C5_Witness ==
    /\ pc = "done" /\ fn = "rss" /\ rss_path = "fresh"
    /\ cache[RssKey(query)].exists
    /\ now - cache[RssKey(query)].mtime <= CACHE_TTL
    /\ Truthy(json_load(cache[RssKey(query)].content))
    /\ articles # <<>>
    /\ json_load(cache[RssKey(query)].content) # Some(articles)
    /\ result = articles

\* C6: load_from_cache under concurrent writers returns nothing or a payload
\* that some save_to_cache call wrote in full
C6_LoadIsWholePayload == loaded.some => loaded.v \in written

\* C7 as stated: the pattern of "Jane Doe" matches a text with "Doe, Jane",
\* with "Jane D." or with "J. Doe", in any letter case, and does not match a
\* text whose only candidate is "Jane Doering"
C7_AsStated ==
    name = JaneDoe /\ matched # "unset" =>
        /\ (core \in {DoeCommaJane, JaneD, JDoe, JaneDUpper, JDoeLower}
              /\ Detached(prefix, suffix) => matched = "match")
        /\ (core = JaneDoering => matched = None)

\* C7 amended: the pattern of "Jane Doe" matches "Doe Jane" (the reversed
\* order with one space), "Jane D." and "J. Doe" where no word character
\* touches them, in any letter case; it matches neither "Doe, Jane" nor
\* "Jane Doering"
C7_NameVariants ==
    name = JaneDoe /\ matched # "unset" =>
        /\ (core \in {DoeJane, JaneD, JDoe, DoeJaneUpper, JaneDUpper, JDoeLower}
              /\ Detached(prefix, suffix) => matched = "match")
        /\ (core \in {DoeCommaJane, JaneDoering} => matched = None)

\* "by Doe Jane," is matched
C7_Witness ==
    /\ name = JaneDoe
    /\ prefix # <<>> /\ suffix # <<>> /\ Detached(prefix, suffix)
    /\ core = DoeJane
    /\ matched = "match"

\* the day a record sorts by: the parsed publish_date, DateMin without one
ResolvedDay(r) == IF ArticleDate(r).ok THEN ArticleDate(r).day ELSE DateMin

SortedDescending(list) ==
    \A i, j \in 1..Len(list) : i < j => ResolvedDay(list[i]) >= ResolvedDay(list[j])

\* C8: on a cache miss get_news_about returns, and returns its records by
\* descending publish date with the records without a readable date last
C8_SortedNeverFails ==
    pc = "done" /\ fn = "news" /\ news_path = "miss" =>
        outcome = "returned" /\ SortedDescending(result)

\* C9: the list get_news_about returns never holds two records with the
\* same url
C9_NewsNoDuplicateUrl ==
    pc = "done" /\ fn = "news" /\ outcome = "returned" => NoDuplicateUrls(result)

\* the feeds and the news API both gave an article of one url, and the list
\* returned has it
C9_Witness ==
    /\ pc = "done" /\ fn = "news" /\ news_path = "miss" /\ outcome = "returned"
    /\ \E i \in 1..Len(rss_result) :
          \E j \in (Len(rss_result) + 1)..Len(all_articles) :
              /\ all_articles[i].url = all_articles[j].url
              /\ all_articles[i].url \in Urls(result)
    /\ NoDuplicateUrls(result)

\* C10: search_rss_feeds and get_news_about never return more than
\* max_articles records
C10_AtMostMaxArticles ==
    /\ Len(articles) <= max_articles
    /\ (pc \in {"done", "news_merge"} => Len(rss_result) <= max_articles)
    /\ (pc = "done" /\ outcome = "returned" => Len(result) <= max_articles)

\* a hit on a payload longer than max_articles returns max_articles records
C10_Witness ==
    /\ pc = "done" /\ fn = "rss" /\ rss_path = "hit"
    /\ max_articles = 1
    /\ Len(stored[RssKey(query)].v) > max_articles
    /\ Len(result) = max_articles

\* the entries of the model
AllEntries == FeedEntries("f1") \cup FeedEntries("f2")

\* the last entry visited matched the name and reached the building of its
\* record
LastEntryMatched == last_entry \in {"added", "error"}

\* the record appended for the last entry visited
LastRecord == articles[Len(articles)]

\* C11: every record search_rss_feeds collects has a non-empty url and a
\* non-empty content, and a matching entry without description text, whose
\* page gave nothing, is collected with the placeholder content and without
\* image
C11_RecordsHaveContent ==
    /\ \A i \in 1..Len(articles) :
          articles[i].url \notin {"", None} /\ articles[i].content \notin {"", None}
    /\ (LastEntryMatched /\ DescText(last_seen.entry.description) = ""
            /\ last_seen.entry.image = None
          => /\ last_entry = "added"
             /\ LastRecord.content = "No content available"
             /\ LastRecord.image_url = None)

\* C12: after a feed failed to parse, the last update of the registry is the
\* one that sets last_error and last_checked of that feed
C12_FailedFeedRecorded ==
    feed_log # <<>> /\ feed_log[Len(feed_log)] \in {"bozo", "raise"}
        => db_write = DbWrite(active_feeds[Len(feed_log)], "error")

\* C13: a matching entry whose feed-level image step raises is still
\* collected, without image
C13_ImageErrorContained ==
    LastEntryMatched /\ ImageStepRaises(last_seen.entry)
        => /\ last_entry = "added"
           /\ LastRecord.url = clean_url(last_seen.entry.link)
           /\ LastRecord.image_url = None

\* C14: a URL returned by extract_image_from_rss_robust,
\* extract_image_from_article_robust or get_article_image is a data: URI or
\* was confirmed by the network probe
C14_ReturnedImagesProbed ==
    resolver \in {"rss", "article_robust", "get_article_image"}
        /\ resolved # NotResolved /\ resolved.url # None
        => IsDataUri(resolved.url) \/ resolved.url \in resolved.probed

\* images of the blocks a resolver can take
UsableBlocks(blocks, Usable(_)) == {i \in 1..Len(blocks) : Usable(blocks[i])}

\* C15: whatever the application/ld+json blocks of the page are, no
\* exception leaves the page-level resolver; it ends with a URL of the page or
\* with None, and a block that cannot be parsed does not hide the image of a
\* later block
C15_MalformedLdJsonNeverRaises ==
    resolved # NotResolved =>
        /\ (resolver \in {"article_robust", "enhanced"} =>
              /\ ~resolved.raised
              /\ resolved.url \in {None} \cup ImageUrls)
        /\ (resolver = "enhanced"
              /\ UsableBlocks(ld_blocks,
                     LAMBDA b : b.kind \in {"trailing_comma", "image"}
                                    /\ is_valid_image(b.image)) # {}
              => resolved.url # None)
        /\ (resolver = "article_robust"
              /\ UsableBlocks(ld_blocks,
                     LAMBDA b : b.kind = "image"
                                    /\ test_image_url(clean_image_url(b.image))) # {}
              => resolved.url # None)

\* a block that is no JSON, then a block with a trailing comma: the second is
\* parsed after the repair and its image returned
C15_Witness ==
    /\ resolver = "enhanced"
    /\ ld_blocks = << LdBlock("malformed", None), LdBlock("trailing_comma", ImgOk) >>
    /\ resolved = Found(ImgOk, TRUE)

\* start_date <= day <= end_date, each bound when given
InRange(day, range) ==
    /\ (range[1] # "" => ParseDay(range[1]).day <= day)
    /\ (range[2] # "" => day <= ParseDay(range[2]).day)

\* position i holds the first article of its url in the list
FirstOfUrl(list, i) == \A j \in 1..(i - 1) : list[j].url # list[i].url

\* C16: on a cache miss every record get_news_about returns whose
\* publish_date parses to a day has that day within the range given, and the
\* filter keeps every article whose date is missing or cannot be parsed
C16_DateFilter ==
    pc = "done" /\ fn = "news" /\ news_path = "miss" =>
        /\ \A i \in 1..Len(result) :
              ArticleDate(result[i]).ok
                  => InRange(ArticleDate(result[i]).day, date_range)
        /\ \A i \in 1..Len(all_articles) :
              ~ArticleDate(all_articles[i]).ok /\ FirstOfUrl(all_articles, i)
                  => \E j \in 1..Len(UniqueArticles(all_articles,
                                                    date_range[1], date_range[2])) :
                        UniqueArticles(all_articles,
                                       date_range[1], date_range[2])[j]
                            = all_articles[i]

\* the range is one day; articles of the day before and of the day after
\* were found and are not returned, the article of the day and an article
\* without date are
C16_Witness ==
    /\ pc = "done" /\ fn = "news" /\ news_path = "miss" /\ outcome = "returned"
    /\ date_range = <<"2024-01-02", "2024-01-02">>
    /\ \E i \in 1..Len(all_articles) : ArticleDate(all_articles[i]) = [ok |-> TRUE, day |-> 1]
    /\ \E i \in 1..Len(all_articles) : ArticleDate(all_articles[i]) = [ok |-> TRUE, day |-> 3]
    /\ Len(result) = 2
    /\ ArticleDate(result[1]) = [ok |-> TRUE, day |-> 2]
    /\ ~HasText(result[2].publish_date)

\* C17: a normalizer applied to its own result for an http:// or https://
\* URL gives that result again
C17_Idempotent ==
    twice # NotCalled /\ IsAbsolute(raw_url) => twice = once

\* C18: extract_article_content returns a record with the url given when the
\* GET is answered with 200 and text/html and the document has a content
\* container or a body, and None otherwise
C18_ExtractReturnsRecord ==
    extracted # NotRun =>
        IF server.answers[1] = "200" /\ server.content_type = "text/html"
              /\ server.layout # "empty"
        THEN extracted.page.some /\ extracted.url = page_url
        ELSE ~extracted.page.some

\* C19: a GET answered with a transient status is sent again, at most three
\* GETs are sent for one url, and None is returned when all of them failed
C19_TransientRetried ==
    extracted # NotRun =>
        /\ extracted.attempts <= 3
        /\ (server.answers[1] \in TransientStatuses => extracted.attempts >= 2)
        /\ (\A i \in 1..3 : server.answers[i] \in TransientStatuses)
              => ~extracted.page.some

\* C20: extract_article_content is called for a matching entry only when
\* its feed content is shorter than MIN_CONTENT, and the record keeps the
\* image and the publish date the feed gave, whatever the page gives
C20_FeedValuesFirst ==
    /\ (last_seen.fetched => DescLen(last_seen.entry.description) < MIN_CONTENT)
    /\ (last_entry = "added" =>
          /\ (extract_image_from_rss_robust(last_seen.entry) # None
                => LastRecord.image_url = extract_image_from_rss_robust(last_seen.entry))
          /\ (HasText(FeedPublishDate(last_seen.entry))
                => LastRecord.publish_date = FeedPublishDate(last_seen.entry)))
    /\ \A e \in AllEntries \cup {[E3 EXCEPT !.published_parsed = "2024-01-01"]},
          p \in Pages :
          /\ (extract_image_from_rss_robust(e) # None
                => BuildRecord(e, clean_url(e.link), p, "f1").image_url
                       = extract_image_from_rss_robust(e))
          /\ (HasText(FeedPublishDate(e))
                => BuildRecord(e, clean_url(e.link), p, "f1").publish_date
                       = FeedPublishDate(e))

\* an entry with a short description and an image of its own: the page was
\* asked for, and the record has the image of the feed
C20_Witness ==
    /\ pc \in {"entry", "poll"}
    /\ last_entry = "added"
    /\ last_seen.fetched
    /\ last_seen.entry = E3
    /\ LastRecord.image_url = "img1"

\* the responses the probe received
Received ==
    {r \in {head_answer} \cup (IF Len(probe.sent) = 2 THEN {get_answer} ELSE {}) :
        ~r.raised}

\* C21: test_image_accessibility returns True only when its HEAD or its GET
\* was answered with 200 and a content type beginning with image/; the GET
\* is sent when the HEAD was answered otherwise; a request that raises
\* gives False and no exception leaves the probe
C21_ProbeAccessibility ==
    prober = "test_image_accessibility" /\ probe # NotProbed =>
        /\ ~probe.raised
        /\ (probe.result =>
              \E r \in Received :
                 r.status = 200 /\ StartsWith(Lower(r.content_type), ImagePrefix))
        /\ (~head_answer.raised
              /\ ~(head_answer.status = 200
                     /\ StartsWith(Lower(head_answer.content_type), ImagePrefix))
              => probe.sent = <<"HEAD", "GET">>)
        /\ (head_answer.raised => ~probe.result)
        /\ (Len(probe.sent) = 2 /\ get_answer.raised => ~probe.result)

\* the HEAD is refused with 405 and the GET answers 200 with an image type
C21_Witness ==
    /\ prober = "test_image_accessibility"
    /\ head_answer.status = 405
    /\ get_answer = Response(200, <<"I","M","A","G","E","/","p","n","g">>, TRUE)
    /\ probe = ProbeResult(TRUE, <<"HEAD", "GET">>)

\* the ranked order of the strategies
RankedOrder == <<"meta", "json_ld", "dom", "background", "page">>

\* position of a strategy in the ranked order
Rank(t) == CHOOSE i \in 1..Len(RankedOrder) : RankedOrder[i] = t

\* C22: the page-level resolver returns the image of the first strategy, in
\* the order meta tags, JSON-LD, DOM heuristics, background-image CSS,
\* largest image, that has an accepted candidate, evaluates no strategy
\* ranked after it, and returns None when no strategy has one
C22_RankedCascade ==
    cascade.done =>
        /\ cascade.returned = RunCascade(RankedOrder, tiers).returned
        /\ (cascade.returned # None =>
              \A i \in 1..Len(cascade.evaluated) :
                 Rank(cascade.evaluated[i]) <= Rank(cascade.returned))

\* C23: two queries that differ in letter case only have the same cache
\* key, in search_rss_feeds and, for the same date range, in get_news_about
C23_KeysIgnoreCase ==
    keys # NoKeys /\ Lower(key_queries[1]) = Lower(key_queries[2])
        => keys[1] = keys[2]

\* the feed loop has not been entered: no feed list loaded, no feed polled,
\* no entry visited, no registry update sent
LoopUntouched ==
    /\ active_feeds = <<>>
    /\ feed_log = <<>>
    /\ last_seen = NoEntry
    /\ articles = <<>>
    /\ processed_urls = {}
    /\ db_write = NoWrite

\* C24: the step of search_rss_feeds that finds its query in the cache
\* returns the cached records, at most max_articles of them, and leaves the
\* feed list unloaded, the feeds and pages unfetched, the registry and the
\* cache files as they were
C24_HitTouchesNothing ==
    [][pc = "rss_lookup" /\ rss_path' = "hit" =>
          /\ LoopUntouched /\ LoopUntouched'
          /\ cache' = cache
          /\ stored' = stored
          /\ rss_result' = Take(stored[RssKey(query)].v, max_articles)
          /\ pc' \in {"done", "news_merge"}]_vars

\* a later request for the same query was answered from the cache
C24_Witness ==
    /\ pc = "done" /\ fn = "rss" /\ rss_path = "hit"
    /\ requests = 2
    /\ result # <<>>
    /\ LoopUntouched

\* C25: at most ENTRY_LIMIT entries of one feed are visited, and once
\* max_articles records are collected no feed is polled, no entry visited,
\* no record added and no registry update sent
C25_StopsAtLimits ==
    /\ [](examined <= ENTRY_LIMIT)
    /\ [][Len(articles) >= max_articles /\ pc \in {"poll", "entry"} =>
            UNCHANGED <<feed_log, examined, last_seen, articles, db_write>>]_vars

\* the record that reaches max_articles came from the last entry within the
\* limit of the first feed; the second feed was not polled
C25_Witness ==
    /\ pc = "done" /\ rss_path = "fresh"
    /\ examined = ENTRY_LIMIT
    /\ max_articles > 0 /\ Len(articles) = max_articles
    /\ Len(active_feeds) = 2 /\ Len(feed_log) = 1

\* the reply is a service error, no JSON, lacks a field, or has a score
\* outside [-1, 1]
FailedReply(reply) ==
    \/ reply.kind \in {"service_error", "rate_limit", "invalid_json", "missing_field"}
    \/ reply.kind = "scored" /\ (reply.score < -100 \/ reply.score > 100)

\* C26: analyze_sentiment calls the LLM service at most three times; when
\* every attempt failed it returns what fallback_sentiment_analysis gives;
\* a result of the LLM has a Score within [-1, 1]
C26_SentimentAttempts ==
    /\ sentiment.calls <= 3
    /\ (sentiment.done /\ (\A i \in 1..3 : FailedReply(llm_replies[i]))
          => sentiment.via = "fallback" /\ sentiment.score = FallbackScore(word_score))
    /\ (sentiment.done /\ sentiment.via = "llm"
          => /\ llm_replies[sentiment.calls].kind = "scored"
             /\ -100 <= sentiment.score /\ sentiment.score <= 100)

\* three failures of three kinds, then the fallback
C26_Witness ==
    /\ llm_replies = <<LlmReply("service_error", 0), LlmReply("invalid_json", 0),
                       LlmReply("scored", 101)>>
    /\ word_score = 9
    /\ sentiment = Analysed(3, "fallback", 80)

\* C27: a call of generate_overall_summary made, within the TTL, after this
\* process generated and saved a summary for the same company and articles
\* returns that summary and does not ask the LLM
C27_SavedSummaryReused ==
    last_summary.prior.some /\ last_summary.at - last_summary.prior.at <= SUMMARY_TTL
        => /\ last_summary.returned = last_summary.prior.v
           /\ ~last_summary.llm_called

\* C28: with the feeds unchanged, search_rss_feeds(q, m) answered from the
\* cache returns the records an uncached search_rss_feeds(q, m) collects
C28_HitEqualsFresh ==
    rss_path = "hit" => rss_result = FreshRun(world, query, max_articles)

\* the step is the cache write of a search_rss_feeds that found nothing in
\* the cache and collected at least one record
RssFreshWrite ==
    /\ pc = "poll" /\ rss_path = "fresh" /\ articles # <<>>
    /\ \A k \in CacheKeys \ {RssKey(query)} : cache'[k] = cache[k]
    /\ cache'[RssKey(query)].mtime = now

\* the step is the cache write of a get_news_about that found nothing in the
\* cache and whose merge kept at least one record
NewsFreshWrite ==
    /\ pc = "news_merge" /\ news_path = "miss"
    /\ UniqueArticles(all_articles', date_range[1], date_range[2]) # <<>>
    /\ \A k \in CacheKeys \ {NewsKey(query, date_range[1], date_range[2])} :
          cache'[k] = cache[k]
    /\ cache'[NewsKey(query, date_range[1], date_range[2])].mtime = now

\* C29: the cache lookups of search_rss_feeds and get_news_about leave every
\* cache file and its modification time as they were, hit or miss; a cache
\* file changes only in the write that ends a fresh aggregation of at least
\* one record; no stored payload is empty
C29_ReadsKeepLifetime ==
    /\ [](\A k \in CacheKeys : stored[k].some => stored[k].v # <<>>)
    /\ [][/\ (pc = "rss_lookup" \/ pc = "news_lookup" => cache' = cache)
          /\ (cache' # cache => RssFreshWrite \/ NewsFreshWrite)]_vars

\* the entry written at hour 0 was hit at hour CACHE_TTL, after an earlier
\* request, and still carries the time of its write
C29_Witness ==
    /\ pc = "done" /\ fn = "rss" /\ rss_path = "hit"
    /\ now = CACHE_TTL
    /\ cache[RssKey(query)].exists /\ cache[RssKey(query)].mtime = 0
    /\ stored[RssKey(query)].v # <<>>

\* C30: during a run of search_rss_feeds processed_urls is the set of the
\* urls of the records collected so far; a pass of the entry loop that fails
\* adds no record and marks no url, and an entry whose url is not marked is
\* never skipped as a duplicate
C30_ProcessedAreCollected ==
    /\ [](processed_urls = Urls(articles))
    /\ [][pc = "entry" /\ last_entry' = "error" =>
            /\ UNCHANGED <<articles, processed_urls>>
            /\ clean_url(last_seen'.entry.link) \notin processed_urls']_vars
    /\ [][pc = "entry" /\ clean_url(last_seen'.entry.link) \notin processed_urls =>
            last_entry' # "duplicate"]_vars

\* the second entry visited in a feed failed while its record was built: its
\* url is not marked, while the url of a record collected before is
C30_Witness ==
    /\ rss_path = "fresh" /\ last_entry = "error" /\ examined = 2
    /\ articles # <<>>
    /\ clean_url(last_seen.entry.link) # ""
    /\ clean_url(last_seen.entry.link) \notin processed_urls
    /\ processed_urls = Urls(articles)

=============================================================================
